---- MODULE Spec2Model ----
(***************************************************************************)
(* Spiltixal terminal core (src/src/main.rs): the cell grid, the Perform   *)
(* callbacks of the escape-sequence interpreter and the pen state.         *)
(*                                                                         *)
(* Rust indices are 0-based; TLA+ sequences are 1-based, so element i of a *)
(* Vec v is v[i + 1].  A panic (Vec index / remove / insert out of range)  *)
(* is recorded in grid.panicked together with the fields as they were at   *)
(* the panicking statement; nothing runs on the grid afterwards.           *)
(***************************************************************************)
EXTENDS Integers, Sequences, FiniteSets, TLC

VARIABLES grid, current_fg, current_bg, current_attrs, title, parser,
          search, pty, track, evicted, run, last, twin, app

pen  == <<current_fg, current_bg, current_attrs>>
vars == <<grid, current_fg, current_bg, current_attrs, title, parser,
          search, pty, track, evicted, run, last, twin, app>>

(***************************** bounds ***************************************)
MaxRows       == 2
MaxCols       == 2
MaxParam      == 3
MaxScrollback == 2
MaxEvict      == 3
MaxSgrLen     == 2
MaxChunk      == 2
MaxCsiParams  == 2
MaxCsiValue   == 22
MaxOscLen     == 2
MaxQuery      == 2
\* The PTY: the channel holds QueueCap chunks (256 in the source), a read
\* returns at most MaxRead bytes (4096 in the source), the kernel buffers
\* OutCap bytes of child output and InCap writes of input, and the child
\* writes MaxStream bytes in all.
QueueCap      == 2
MaxRead       == 2
OutCap        == 2
InCap         == 1
MaxStream     == 6

\* A grid with a row above and a row below a one-row scroll region.
TallRows == 3
\* A scroll event moves the view by at most MaxLines lines.
MaxLines == 3

\* The size Spiltixal::new gives the terminal and the PTY.
InitRows == 24
InitCols == 80

Min(a, b) == IF a < b THEN a ELSE b
Max(a, b) == IF a > b THEN a ELSE b
SatSub(a, b) == IF a > b THEN a - b ELSE 0

(***************************** data model ***********************************)
Default     == [kind |-> "Default", r |-> 0, g |-> 0, b |-> 0]
Ansi(n)     == [kind |-> "Ansi",    r |-> n, g |-> 0, b |-> 0]
Ansi256(n)  == [kind |-> "Ansi256", r |-> n, g |-> 0, b |-> 0]
Rgb(r, g, b) == [kind |-> "Rgb",    r |-> r, g |-> g, b |-> b]

AttrsDefault ==
    [bold |-> FALSE, dim |-> FALSE, italic |-> FALSE, underline |-> FALSE,
     blink |-> FALSE, reverse |-> FALSE, invisible |-> FALSE, strikeout |-> FALSE]

Cell(ch, fg, bg, attrs, width) ==
    [ch |-> ch, fg |-> fg, bg |-> bg, attrs |-> attrs, width |-> width]

CellDefault == Cell(" ", Default, Default, AttrsDefault, 1)

BlankRow(n) == [i \in 1..n |-> CellDefault]

\* Vec::remove(i) and Vec::insert(i, e) on a sequence, i 0-based and in range.
RemoveAt(s, i)    == SubSeq(s, 1, i) \o SubSeq(s, i + 2, Len(s))
InsertAt(s, i, e) == SubSeq(s, 1, i) \o <<e>> \o SubSeq(s, i + 1, Len(s))

\* Vec::resize(n, CellDefault) on one row.
RowResize(row, n) ==
    [i \in 1..n |-> IF i <= Len(row) THEN row[i] ELSE CellDefault]

\* Display width of a code point as UnicodeWidthChar::width gives it, after
\* unwrap_or(1): "W" stands for a wide (East Asian) code point, "z" for a
\* zero-width combining mark, every other character is narrow.
UnicodeWidth(ch) == IF ch = "W" THEN 2 ELSE IF ch = "z" THEN 0 ELSE 1

Clamp(v, lo, hi) == Max(lo, Min(v, hi))

(***************************** Grid *****************************************)
GridNew(rows, cols, max_scrollback) ==
    [rows |-> rows, cols |-> cols,
     cells |-> [y \in 1..rows |-> BlankRow(cols)],
     cursor_x |-> 0, cursor_y |-> 0,
     scroll_top |-> 0, scroll_bot |-> SatSub(rows, 1),
     scrollback |-> <<>>, max_scrollback |-> max_scrollback,
     scroll_offset |-> 0,
     panicked |-> FALSE, evlog |-> <<>>]

Panic(g) == [g EXCEPT !.panicked = TRUE]

resize(g, new_rows, new_cols) ==
    LET c1 == [y \in 1..Len(g.cells) |-> RowResize(g.cells[y], new_cols)]
        c2 == IF new_rows > g.rows
              THEN c1 \o [k \in 1..(new_rows - g.rows) |-> BlankRow(new_cols)]
              ELSE SubSeq(c1, 1, Min(new_rows, Len(c1)))
    IN [g EXCEPT !.cells = c2, !.rows = new_rows, !.cols = new_cols,
                 !.scroll_bot = SatSub(new_rows, 1),
                 !.cursor_x = Min(g.cursor_x, SatSub(new_cols, 1)),
                 !.cursor_y = Min(g.cursor_y, SatSub(new_rows, 1))]

\* scroll_up's loop body with the cap tested one row late.
scroll_up_step_late_evict(g) ==
    IF g.panicked \/ Len(g.cells) = 0 THEN g
    ELSE IF g.scroll_top >= Len(g.cells) THEN Panic(g)
    ELSE LET ev  == g.cells[g.scroll_top + 1]
             c1  == RemoveAt(g.cells, g.scroll_top)
             sb1 == Append(g.scrollback, ev)
             sb2 == IF Len(sb1) > g.max_scrollback + 1 THEN Tail(sb1) ELSE sb1
             g1  == [g EXCEPT !.cells = c1, !.scrollback = sb2,
                              !.evlog = Append(g.evlog, ev)]
         IN IF g.scroll_bot > Len(c1) THEN Panic(g1)
            ELSE [g1 EXCEPT !.cells = InsertAt(c1, g.scroll_bot, BlankRow(g.cols))]

\* scroll_up's loop body dropping the newest scrollback row, not the oldest.
scroll_up_step_drop_newest(g) ==
    IF g.panicked \/ Len(g.cells) = 0 THEN g
    ELSE IF g.scroll_top >= Len(g.cells) THEN Panic(g)
    ELSE LET ev  == g.cells[g.scroll_top + 1]
             c1  == RemoveAt(g.cells, g.scroll_top)
             sb1 == Append(g.scrollback, ev)
             sb2 == IF Len(sb1) > g.max_scrollback
                    THEN SubSeq(sb1, 1, Len(sb1) - 1) ELSE sb1
             g1  == [g EXCEPT !.cells = c1, !.scrollback = sb2,
                              !.evlog = Append(g.evlog, ev)]
         IN IF g.scroll_bot > Len(c1) THEN Panic(g1)
            ELSE [g1 EXCEPT !.cells = InsertAt(c1, g.scroll_bot, BlankRow(g.cols))]

\* One iteration of the loop of scroll_up.
scroll_up_step(g) ==
    IF g.panicked \/ Len(g.cells) = 0 THEN g
    ELSE IF g.scroll_top >= Len(g.cells) THEN Panic(g)
    ELSE LET ev  == g.cells[g.scroll_top + 1]
             c1  == RemoveAt(g.cells, g.scroll_top)
             sb1 == Append(g.scrollback, ev)
             sb2 == IF Len(sb1) > g.max_scrollback THEN Tail(sb1) ELSE sb1
             g1  == [g EXCEPT !.cells = c1, !.scrollback = sb2,
                              !.evlog = Append(g.evlog, ev)]
         IN IF g.scroll_bot > Len(c1) THEN Panic(g1)
            ELSE [g1 EXCEPT !.cells = InsertAt(c1, g.scroll_bot, BlankRow(g.cols))]

RECURSIVE scroll_up(_, _)
scroll_up(g, n) ==
    IF n = 0 \/ g.panicked THEN g ELSE scroll_up(scroll_up_step(g), n - 1)

\* scroll_down's loop body inserting the blank row at the top of the grid.
scroll_down_step_at_zero(g) ==
    IF g.panicked THEN g
    ELSE LET c1 == IF Len(g.cells) > g.scroll_bot
                   THEN RemoveAt(g.cells, g.scroll_bot) ELSE g.cells
         IN [g EXCEPT !.cells = InsertAt(c1, 0, BlankRow(g.cols))]

\* One iteration of the loop of scroll_down.
scroll_down_step(g) ==
    IF g.panicked THEN g
    ELSE LET c1 == IF Len(g.cells) > g.scroll_bot
                   THEN RemoveAt(g.cells, g.scroll_bot) ELSE g.cells
             g1 == [g EXCEPT !.cells = c1]
         IN IF g.scroll_top > Len(c1) THEN Panic(g1)
            ELSE [g1 EXCEPT !.cells = InsertAt(c1, g.scroll_top, BlankRow(g.cols))]

RECURSIVE scroll_down(_, _)
scroll_down(g, n) ==
    IF n = 0 \/ g.panicked THEN g ELSE scroll_down(scroll_down_step(g), n - 1)

newline(g) ==
    IF g.cursor_y >= g.scroll_bot THEN scroll_up(g, 1)
    ELSE [g EXCEPT !.cursor_y = g.cursor_y + 1]

\* cells[y][x] = c, panicking like a Vec index when y or x is out of range.
SetCell(g, y, x, c) ==
    IF y >= Len(g.cells) THEN Panic(g)
    ELSE IF x >= Len(g.cells[y + 1]) THEN Panic(g)
    ELSE [g EXCEPT !.cells[y + 1][x + 1] = c]

\* put_char wrapping as soon as a narrow character fills the last column.
put_char_eager_wrap(g, ch, fg, bg, attrs) ==
    IF g.cursor_y >= g.rows THEN g
    ELSE
    LET width == Clamp(UnicodeWidth(ch), 1, 2)
        wrap  == width = 2 /\ g.cursor_x + 1 >= g.cols
        g2    == IF wrap THEN newline([g EXCEPT !.cursor_x = 0]) ELSE g
    IN IF g2.panicked THEN g2
       ELSE IF g2.cursor_x >= g2.cols \/ g2.cursor_y >= g2.rows THEN g2
       ELSE
       LET g3 == SetCell(g2, g2.cursor_y, g2.cursor_x, Cell(ch, fg, bg, attrs, width))
           g4 == IF width = 2 /\ g3.cursor_x + 1 < g3.cols
                 THEN SetCell(g3, g3.cursor_y, g3.cursor_x + 1, Cell(" ", fg, bg, attrs, 0))
                 ELSE g3
           g5 == [g4 EXCEPT !.cursor_x = g4.cursor_x + width]
       IN IF g5.cursor_x >= g5.cols
          THEN newline([g5 EXCEPT !.cursor_x = 0]) ELSE g5

put_char(g, ch, fg, bg, attrs) ==
    IF g.cursor_y >= g.rows THEN g
    ELSE
    LET g1    == IF g.cursor_x >= g.cols
                 THEN newline([g EXCEPT !.cursor_x = 0]) ELSE g
        width == Clamp(UnicodeWidth(ch), 1, 2)
        wrap  == width = 2 /\ g1.cursor_x + 1 >= g1.cols
        g2    == IF ~g1.panicked /\ wrap
                 THEN newline([g1 EXCEPT !.cursor_x = 0]) ELSE g1
    IN IF g2.panicked THEN g2
       ELSE IF wrap /\ g2.cursor_y >= g2.rows THEN g2
       ELSE
       LET g3 == SetCell(g2, g2.cursor_y, g2.cursor_x, Cell(ch, fg, bg, attrs, width))
       IN IF g3.panicked THEN g3
          ELSE IF width = 2
          THEN LET next == g3.cursor_x + 1
                   g4   == IF next < g3.cols
                           THEN SetCell(g3, g3.cursor_y, next, Cell(" ", fg, bg, attrs, 0))
                           ELSE g3
               IN IF g4.panicked THEN g4
                  ELSE [g4 EXCEPT !.cursor_x = g4.cursor_x + 2]
          ELSE [g3 EXCEPT !.cursor_x = g3.cursor_x + 1]

\* The row with the cells in columns lo..hi-1 (0-based) set to default.
EraseCols(row, lo, hi) ==
    [i \in 1..Len(row) |-> IF i - 1 >= lo /\ i - 1 < hi THEN CellDefault ELSE row[i]]

\* erase_line whose mode 1 stops before the cursor column: take(cx).
erase_line_before_cursor(g, mode) ==
    IF g.cursor_y >= g.rows THEN g
    ELSE IF g.cursor_y >= Len(g.cells) THEN Panic(g)
    ELSE LET cx  == g.cursor_x
             row == g.cells[g.cursor_y + 1]
         IN CASE mode = 0 ->
                   [g EXCEPT !.cells[g.cursor_y + 1] = EraseCols(row, cx, Len(row))]
              [] mode = 1 ->
                   [g EXCEPT !.cells[g.cursor_y + 1] = EraseCols(row, 0, cx)]
              [] mode = 2 ->
                   [g EXCEPT !.cells[g.cursor_y + 1] = EraseCols(row, 0, Len(row))]
              [] OTHER    -> g

erase_line(g, mode) ==
    IF g.cursor_y >= g.rows THEN g
    ELSE IF g.cursor_y >= Len(g.cells) THEN Panic(g)
    ELSE LET cx  == g.cursor_x
             row == g.cells[g.cursor_y + 1]
         IN CASE mode = 0 ->  \* skip(cx)
                   [g EXCEPT !.cells[g.cursor_y + 1] = EraseCols(row, cx, Len(row))]
              [] mode = 1 ->  \* take(cx + 1)
                   [g EXCEPT !.cells[g.cursor_y + 1] = EraseCols(row, 0, cx + 1)]
              [] mode = 2 ->
                   [g EXCEPT !.cells[g.cursor_y + 1] = EraseCols(row, 0, Len(row))]
              [] OTHER    -> g

\* Rows lo..hi-1 (0-based) replaced by default cells; an index past the end
\* of cells panics as cells[y] does.
EraseRows(g, lo, hi) ==
    IF lo < hi /\ hi > Len(g.cells)
    THEN Panic([g EXCEPT !.cells =
            [y \in 1..Len(g.cells) |->
                IF y - 1 >= lo THEN BlankRow(Len(g.cells[y])) ELSE g.cells[y]]])
    ELSE [g EXCEPT !.cells =
            [y \in 1..Len(g.cells) |->
                IF y - 1 >= lo /\ y - 1 < hi
                THEN BlankRow(Len(g.cells[y])) ELSE g.cells[y]]]

\* erase_display whose modes 2 and 3 clear the cells and leave the cursor.
erase_display_keep_cursor(g, mode) ==
    CASE mode = 0 ->
            LET g1 == erase_line(g, 0)
            IN IF g1.panicked THEN g1 ELSE EraseRows(g1, g1.cursor_y + 1, g1.rows)
      [] mode = 1 ->
            LET g1 == EraseRows(g, 0, g.cursor_y)
            IN IF g1.panicked THEN g1 ELSE erase_line(g1, 1)
      [] mode = 2 \/ mode = 3 ->
            [g EXCEPT !.cells = [y \in 1..Len(g.cells) |-> BlankRow(Len(g.cells[y]))]]
      [] OTHER -> g

erase_display(g, mode) ==
    CASE mode = 0 ->
            LET g1 == erase_line(g, 0)
            IN IF g1.panicked THEN g1 ELSE EraseRows(g1, g1.cursor_y + 1, g1.rows)
      [] mode = 1 ->
            LET g1 == EraseRows(g, 0, g.cursor_y)
            IN IF g1.panicked THEN g1 ELSE erase_line(g1, 1)
      [] mode = 2 \/ mode = 3 ->
            [g EXCEPT !.cells = [y \in 1..Len(g.cells) |-> BlankRow(Len(g.cells[y]))],
                      !.cursor_x = 0, !.cursor_y = 0]
      [] OTHER -> g

(***************************** Performer ************************************)
\* Bytes that execute() and esc_dispatch() distinguish.
BS  == 8
TAB == 9
LF  == 10
VT  == 11
FF  == 12
CR  == 13
BEL == 7

execute(g, byte) ==
    CASE byte \in {LF, VT, FF} -> newline(g)
      [] byte = CR  -> [g EXCEPT !.cursor_x = 0]
      [] byte = TAB -> [g EXCEPT !.cursor_x =
                            Min(((g.cursor_x \div 8) + 1) * 8, g.cols - 1)]
      [] byte = BS  -> IF g.cursor_x > 0
                       THEN [g EXCEPT !.cursor_x = g.cursor_x - 1] ELSE g
      [] OTHER -> g

\* ps.get(i).unwrap_or(d), i 0-based.
GetOr(ps, i, d) == IF i < Len(ps) THEN ps[i + 1] ELSE d

P0(ps)    == GetOr(ps, 0, 0)
\* pn that takes an omitted parameter for the largest one.
Pn_omitted_is_last(ps, i) == Max(GetOr(ps, i, 65535), 1)
Pn(ps, i) == Max(GetOr(ps, i, 1), 1)
P1(ps)    == Max(GetOr(ps, 0, 1), 1)

\* p0 as u8
AsU8(v) == v % 256

\* CSI P shifting the cells left without blanking the vacated tail.
DeleteChars_keep_tail(row, x, n) ==
    [i \in 1..Len(row) |->
        IF i - 1 < x THEN row[i]
        ELSE IF (i - 1) + n < Len(row) THEN row[i + n] ELSE row[i]]

\* CSI P: delete n cells at column x of a row.
DeleteChars(row, x, n) ==
    [i \in 1..Len(row) |->
        IF i - 1 < x THEN row[i]
        ELSE IF (i - 1) + n < Len(row) THEN row[i + n] ELSE CellDefault]

\* CSI @: insert n blank cells at column x of a row.
InsertChars(row, x, n) ==
    [i \in 1..Len(row) |->
        IF i - 1 < x THEN row[i]
        ELSE IF i - 1 >= x + n THEN row[i - n] ELSE CellDefault]

\* The effect of csi_dispatch on the grid, for every final byte but 'm'.
csi_grid(g, ps, action) ==
    CASE action = "A" -> [g EXCEPT !.cursor_y = SatSub(g.cursor_y, P1(ps))]
      [] action = "B" -> [g EXCEPT !.cursor_y = Min(g.cursor_y + P1(ps), g.rows - 1)]
      [] action = "C" -> [g EXCEPT !.cursor_x = Min(g.cursor_x + P1(ps), g.cols - 1)]
      [] action = "D" -> [g EXCEPT !.cursor_x = SatSub(g.cursor_x, P1(ps))]
      [] action \in {"H", "f"} ->
            [g EXCEPT !.cursor_y = Min(SatSub(Pn(ps, 0), 1), g.rows - 1),
                      !.cursor_x = Min(SatSub(Pn(ps, 1), 1), g.cols - 1)]
      [] action = "J" -> erase_display(g, AsU8(P0(ps)))
      [] action = "K" -> erase_line(g, AsU8(P0(ps)))
      [] action \in {"S", "L"} -> scroll_up(g, P1(ps))
      [] action \in {"T", "M"} -> scroll_down(g, P1(ps))
      [] action = "r" ->
            [g EXCEPT !.scroll_top = SatSub(Pn(ps, 0), 1),
                      !.scroll_bot = Min(SatSub(Pn(ps, 1), 1), g.rows - 1)]
      [] action = "d" -> [g EXCEPT !.cursor_y = Min(SatSub(P0(ps), 1), g.rows - 1)]
      [] action = "G" -> [g EXCEPT !.cursor_x = Min(SatSub(P0(ps), 1), g.cols - 1)]
      [] action = "P" ->
            IF g.cursor_y < g.rows
            THEN IF g.cursor_y >= Len(g.cells) THEN Panic(g)
                 ELSE [g EXCEPT !.cells[g.cursor_y + 1] =
                          DeleteChars(g.cells[g.cursor_y + 1], g.cursor_x, P1(ps))]
            ELSE g
      [] action = "@" ->
            IF g.cursor_y < g.rows
            THEN IF g.cursor_y >= Len(g.cells) THEN Panic(g)
                 ELSE [g EXCEPT !.cells[g.cursor_y + 1] =
                          InsertChars(g.cells[g.cursor_y + 1], g.cursor_x, P1(ps))]
            ELSE g
      [] OTHER -> g

esc_grid(g, byte) ==
    IF byte = "M"
    THEN IF g.cursor_y <= g.scroll_top THEN scroll_down(g, 1)
         ELSE [g EXCEPT !.cursor_y = SatSub(g.cursor_y, 1)]
    ELSE g

(***************************** SGR ******************************************)
PenDefault == [fg |-> Default, bg |-> Default, attrs |-> AttrsDefault]

\* reset_attrs forgetting the background.
reset_attrs_keep_bg(p) == [PenDefault EXCEPT !.bg = p.bg]

reset_attrs(p) == PenDefault

\* parse_ext: [ok, color, i] with i the index after the call.
parse_ext(ps, i) ==
    LET none == [ok |-> FALSE, color |-> Default, i |-> i]
    IN IF i + 1 >= Len(ps) THEN none
       ELSE IF ps[i + 2] = 2
            THEN IF i + 4 < Len(ps)
                 THEN [ok |-> TRUE,
                       color |-> Rgb(AsU8(ps[i + 3]), AsU8(ps[i + 4]), AsU8(ps[i + 5])),
                       i |-> i + 4]
                 ELSE none
       ELSE IF ps[i + 2] = 5
            THEN IF i + 2 < Len(ps)
                 THEN [ok |-> TRUE, color |-> Ansi256(AsU8(ps[i + 3])), i |-> i + 2]
                 ELSE none
       ELSE none

\* sgr_code with the bright foreground colours at the base indices.
sgr_code_bright_as_base(p, code, ext) ==
    CASE code = 0  -> reset_attrs(p)
      [] code = 1  -> [p EXCEPT !.attrs.bold = TRUE]
      [] code = 2  -> [p EXCEPT !.attrs.dim = TRUE]
      [] code = 3  -> [p EXCEPT !.attrs.italic = TRUE]
      [] code = 4  -> [p EXCEPT !.attrs.underline = TRUE]
      [] code = 5  -> [p EXCEPT !.attrs.blink = TRUE]
      [] code = 7  -> [p EXCEPT !.attrs.reverse = TRUE]
      [] code = 8  -> [p EXCEPT !.attrs.invisible = TRUE]
      [] code = 9  -> [p EXCEPT !.attrs.strikeout = TRUE]
      [] code = 22 -> [p EXCEPT !.attrs.bold = FALSE, !.attrs.dim = FALSE]
      [] code = 23 -> [p EXCEPT !.attrs.italic = FALSE]
      [] code = 24 -> [p EXCEPT !.attrs.underline = FALSE]
      [] code = 25 -> [p EXCEPT !.attrs.blink = FALSE]
      [] code = 27 -> [p EXCEPT !.attrs.reverse = FALSE]
      [] code = 28 -> [p EXCEPT !.attrs.invisible = FALSE]
      [] code = 29 -> [p EXCEPT !.attrs.strikeout = FALSE]
      [] code \in 30..37 -> [p EXCEPT !.fg = Ansi(AsU8(code - 30))]
      [] code = 38 -> IF ext.ok THEN [p EXCEPT !.fg = ext.color] ELSE p
      [] code = 39 -> [p EXCEPT !.fg = Default]
      [] code \in 40..47 -> [p EXCEPT !.bg = Ansi(AsU8(code - 40))]
      [] code = 48 -> IF ext.ok THEN [p EXCEPT !.bg = ext.color] ELSE p
      [] code = 49 -> [p EXCEPT !.bg = Default]
      [] code \in 90..97   -> [p EXCEPT !.fg = Ansi(AsU8(code - 90))]
      [] code \in 100..107 -> [p EXCEPT !.bg = Ansi(AsU8(code - 100 + 8))]
      [] OTHER -> p

\* One arm of the match of handle_sgr on code ps[i]; the pen after it.
sgr_code(p, code, ext) ==
    CASE code = 0  -> reset_attrs(p)
      [] code = 1  -> [p EXCEPT !.attrs.bold = TRUE]
      [] code = 2  -> [p EXCEPT !.attrs.dim = TRUE]
      [] code = 3  -> [p EXCEPT !.attrs.italic = TRUE]
      [] code = 4  -> [p EXCEPT !.attrs.underline = TRUE]
      [] code = 5  -> [p EXCEPT !.attrs.blink = TRUE]
      [] code = 7  -> [p EXCEPT !.attrs.reverse = TRUE]
      [] code = 8  -> [p EXCEPT !.attrs.invisible = TRUE]
      [] code = 9  -> [p EXCEPT !.attrs.strikeout = TRUE]
      [] code = 22 -> [p EXCEPT !.attrs.bold = FALSE, !.attrs.dim = FALSE]
      [] code = 23 -> [p EXCEPT !.attrs.italic = FALSE]
      [] code = 24 -> [p EXCEPT !.attrs.underline = FALSE]
      [] code = 25 -> [p EXCEPT !.attrs.blink = FALSE]
      [] code = 27 -> [p EXCEPT !.attrs.reverse = FALSE]
      [] code = 28 -> [p EXCEPT !.attrs.invisible = FALSE]
      [] code = 29 -> [p EXCEPT !.attrs.strikeout = FALSE]
      [] code \in 30..37 -> [p EXCEPT !.fg = Ansi(AsU8(code - 30))]
      [] code = 38 -> IF ext.ok THEN [p EXCEPT !.fg = ext.color] ELSE p
      [] code = 39 -> [p EXCEPT !.fg = Default]
      [] code \in 40..47 -> [p EXCEPT !.bg = Ansi(AsU8(code - 40))]
      [] code = 48 -> IF ext.ok THEN [p EXCEPT !.bg = ext.color] ELSE p
      [] code = 49 -> [p EXCEPT !.bg = Default]
      [] code \in 90..97   -> [p EXCEPT !.fg = Ansi(AsU8(code - 90 + 8))]
      [] code \in 100..107 -> [p EXCEPT !.bg = Ansi(AsU8(code - 100 + 8))]
      [] OTHER -> p

\* The while loop of handle_sgr from index i; lastc is the code of the arm
\* taken most recently (-1 before the first).
RECURSIVE sgr_loop(_, _, _, _)
sgr_loop(ps, i, p, lastc) ==
    IF i >= Len(ps) THEN [pen |-> p, lastc |-> lastc]
    ELSE LET code == ps[i + 1]
             ext  == IF code \in {38, 48} THEN parse_ext(ps, i)
                     ELSE [ok |-> FALSE, color |-> Default, i |-> i]
         IN sgr_loop(ps, ext.i + 1, sgr_code(p, code, ext), code)

handle_sgr(p, ps) ==
    IF Len(ps) = 0 THEN reset_attrs(p) ELSE sgr_loop(ps, 0, p, -1).pen

\* The code of the last match arm handle_sgr takes on ps (-1: none).
SgrLastCode(ps) == sgr_loop(ps, 0, PenDefault, -1).lastc

(***************************** the parser ***********************************)
\* TerminalState owns one vte::Parser and process_bytes drives it one byte at
\* a time.  The parser is modelled for 7-bit input without intermediates:
\* C0 controls, ESC, CSI with numeric parameters, OSC ended by BEL or ESC, and
\* printable bytes.  Parameters are cleared when a sequence is dispatched
\* (vte clears them when the next one starts; nothing reads them in between).
ParserNew == [state |-> "Ground", params |-> <<>>, param |-> 0, osc |-> <<>>]

\* "Spiltixal"
TitleDefault == <<83, 112, 105, 108, 116, 105, 120, 97, 108>>

\* The character a printable byte decodes to.
CharOf(byte) ==
    CASE byte = 49  -> "1"
      [] byte = 50  -> "2"
      [] byte = 59  -> ";"
      [] byte = 72  -> "H"
      [] byte = 74  -> "J"
      [] byte = 80  -> "P"
      [] byte = 77  -> "M"
      [] byte = 91  -> "["
      [] byte = 93  -> "]"
      [] byte = 97  -> "a"
      [] byte = 98  -> "b"
      [] byte = 109 -> "m"
      [] byte = 113 -> "q"
      [] byte = 114 -> "r"
      [] byte = 120 -> "x"
      [] OTHER -> "?"

\* The Performer process_bytes builds: the grid and the title by reference,
\* the pen by value.
PerfPrint(pf, ch) ==
    [pf EXCEPT !.grid = put_char(pf.grid, ch, pf.fg, pf.bg, pf.attrs)]

PerfExecute(pf, byte) == [pf EXCEPT !.grid = execute(pf.grid, byte)]

PerfCsi(pf, ps, action) ==
    IF action = "m"
    THEN LET p == handle_sgr([fg |-> pf.fg, bg |-> pf.bg, attrs |-> pf.attrs], ps)
         IN [pf EXCEPT !.fg = p.fg, !.bg = p.bg, !.attrs = p.attrs]
    ELSE [pf EXCEPT !.grid = csi_grid(pf.grid, ps, action)]

PerfEsc(pf, byte) == [pf EXCEPT !.grid = esc_grid(pf.grid, CharOf(byte))]

\* Vec::get: the element at the 0-based index i, or None.
VecGet(v, i) ==
    IF i < Len(v) THEN [some |-> TRUE, val |-> v[i + 1]]
    ELSE [some |-> FALSE, val |-> <<>>]

\* visible_row that does not read scroll_offset.
visible_row_live(g, y) == VecGet(g.cells, y)

\* Grid::visible_row
visible_row(g, y) ==
    LET total == Len(g.scrollback) + g.rows
        view_start == Max(total - (g.rows + g.scroll_offset), 0)
        idx == view_start + y
    IN IF idx < Len(g.scrollback) THEN VecGet(g.scrollback, idx)
       ELSE VecGet(g.cells, idx - Len(g.scrollback))

\* std::str::from_utf8 on bytes below 128 and the byte 255, which no UTF-8
\* encoding holds: Ok exactly when every byte is below 128.
from_utf8(bytes) ==
    [ok |-> \A i \in 1..Len(bytes) : bytes[i] < 128, str |-> bytes]

\* osc_dispatch that takes the title from every code.
PerfOsc_any_code(pf, params) ==
    IF Len(params) >= 2 /\ from_utf8(params[2]).ok
    THEN [pf EXCEPT !.title = from_utf8(params[2]).str]
    ELSE pf

\* osc_dispatch: params is the payload split at ';'.
PerfOsc(pf, params) ==
    IF Len(params) >= 2 /\ params[1] \in {<<48>>, <<50>>}
                        /\ from_utf8(params[2]).ok
    THEN [pf EXCEPT !.title = from_utf8(params[2]).str]
    ELSE pf

\* The transition of the parser on one byte: the next parser state and the
\* Perform callback the byte triggers (ev.kind "none": no callback).
Transition(pr, byte) ==
    LET escape == [ParserNew EXCEPT !.state = "Escape"]
        none   == [kind |-> "none", byte |-> byte, ps |-> <<>>]
        ev(k)  == [kind |-> k, byte |-> byte, ps |-> <<>>]
        to(q)  == [parser |-> q, ev |-> none]
    IN CASE pr.state = "Ground" ->
              IF byte = 27 THEN to(escape)
              ELSE IF byte < 32 THEN [parser |-> pr, ev |-> ev("execute")]
              ELSE [parser |-> pr, ev |-> ev("print")]
         [] pr.state = "Escape" ->
              IF byte = 27 THEN to(escape)
              ELSE IF byte < 32 THEN [parser |-> pr, ev |-> ev("execute")]
              ELSE IF byte = 91 THEN to([ParserNew EXCEPT !.state = "CsiEntry"])
              ELSE IF byte = 93
                   THEN to([ParserNew EXCEPT !.state = "OscString",
                                             !.osc = << <<>> >>])
              ELSE IF byte = 80 THEN to([ParserNew EXCEPT !.state = "DcsEntry"])
              ELSE [parser |-> ParserNew, ev |-> ev("esc")]
         [] pr.state \in {"CsiEntry", "CsiParam"} ->
              IF byte = 27 THEN to(escape)
              ELSE IF byte < 32 THEN [parser |-> pr, ev |-> ev("execute")]
              ELSE IF byte \in 48..57
                   THEN to([pr EXCEPT !.state = "CsiParam",
                                      !.param = Min(pr.param * 10 + (byte - 48),
                                                    65535)])
              ELSE IF byte = 59
                   THEN to([pr EXCEPT !.state = "CsiParam",
                                      !.params = Append(pr.params, pr.param),
                                      !.param = 0])
              ELSE [parser |-> ParserNew,
                    ev |-> [kind |-> "csi", byte |-> byte,
                            ps |-> Append(pr.params, pr.param)]]
         [] pr.state = "OscString" ->
              IF byte = 7
              THEN [parser |-> ParserNew,
                    ev |-> [kind |-> "osc", byte |-> byte, ps |-> pr.osc]]
              ELSE IF byte = 27
                   THEN [parser |-> escape,
                         ev |-> [kind |-> "osc", byte |-> byte, ps |-> pr.osc]]
              ELSE IF byte < 32 THEN to(pr)
              ELSE IF byte = 59
                   THEN to([pr EXCEPT !.osc = Append(pr.osc, <<>>)])
              ELSE to([pr EXCEPT !.osc[Len(pr.osc)] =
                                     Append(pr.osc[Len(pr.osc)], byte)])
         [] pr.state \in {"DcsEntry", "DcsParam"} ->
              IF byte = 27 THEN to(escape)
              ELSE IF byte < 32 THEN to(pr)
              ELSE IF byte \in 48..57
                   THEN to([pr EXCEPT !.state = "DcsParam",
                                      !.param = Min(pr.param * 10 + (byte - 48),
                                                    65535)])
              ELSE IF byte = 59
                   THEN to([pr EXCEPT !.state = "DcsParam",
                                      !.params = Append(pr.params, pr.param),
                                      !.param = 0])
              ELSE [parser |-> [ParserNew EXCEPT !.state = "DcsPassthrough"],
                    ev |-> [kind |-> "hook", byte |-> byte,
                            ps |-> Append(pr.params, pr.param)]]
         [] pr.state = "DcsPassthrough" ->
              IF byte = 27 THEN [parser |-> escape, ev |-> ev("unhook")]
              ELSE IF byte = 127 THEN to(pr)
              ELSE [parser |-> pr, ev |-> ev("put")]

\* Perform with a put that prints the passed-through byte.
Perform_put_prints(pf, ev) ==
    CASE ev.kind = "print"   -> PerfPrint(pf, CharOf(ev.byte))
      [] ev.kind = "execute" -> PerfExecute(pf, ev.byte)
      [] ev.kind = "csi"     -> PerfCsi(pf, ev.ps, CharOf(ev.byte))
      [] ev.kind = "esc"     -> PerfEsc(pf, ev.byte)
      [] ev.kind = "osc"     -> PerfOsc(pf, ev.ps)
      [] ev.kind = "put"     -> PerfPrint(pf, CharOf(ev.byte))
      [] OTHER -> pf

\* The Perform callback of an event on the Performer.
Perform(pf, ev) ==
    CASE ev.kind = "print"   -> PerfPrint(pf, CharOf(ev.byte))
      [] ev.kind = "execute" -> PerfExecute(pf, ev.byte)
      [] ev.kind = "csi"     -> PerfCsi(pf, ev.ps, CharOf(ev.byte))
      [] ev.kind = "esc"     -> PerfEsc(pf, ev.byte)
      [] ev.kind = "osc"     -> PerfOsc(pf, ev.ps)
      [] ev.kind \in {"hook", "put", "unhook"} -> pf
      [] OTHER -> pf

\* Parser::advance: one byte through the state machine, calling the Performer.
advance(pf, pr, byte) ==
    IF pf.grid.panicked THEN [perf |-> pf, parser |-> pr]
    ELSE LET t == Transition(pr, byte)
         IN [perf |-> Perform(pf, t.ev), parser |-> t.parser]

\* for &byte in bytes { self.parser.advance(&mut perf, byte); } from byte i on.
RECURSIVE advance_all(_, _, _, _)
advance_all(pf, pr, bytes, i) ==
    IF i > Len(bytes) THEN [perf |-> pf, parser |-> pr]
    ELSE LET r == advance(pf, pr, bytes[i])
         IN advance_all(r.perf, r.parser, bytes, i + 1)

\* The Performer process_bytes starts with.
PerformerOf(t) ==
    [grid |-> t.grid, fg |-> t.current_fg, bg |-> t.current_bg,
     attrs |-> t.current_attrs, title |-> t.title]

\* process_bytes without the capture of the pen after the loop.
process_bytes_keep_pen(t, r) ==
    [t EXCEPT !.grid = r.perf.grid, !.title = r.perf.title, !.parser = r.parser]

\* TerminalState::process_bytes: r is the Performer and the parser after the
\* byte loop; the pen is captured back into the terminal t.
process_bytes(t, r) ==
    [t EXCEPT !.grid = r.perf.grid, !.title = r.perf.title,
              !.parser = r.parser,
              !.current_fg = r.perf.fg, !.current_bg = r.perf.bg,
              !.current_attrs = r.perf.attrs]

\* process_bytes on each chunk of chunks in turn, from chunk i on.
RECURSIVE process_chunks(_, _, _)
process_chunks(t, chunks, i) ==
    IF i > Len(chunks) THEN t
    ELSE process_chunks(
            process_bytes(t, advance_all(PerformerOf(t), t.parser, chunks[i], 1)),
            chunks, i + 1)

\* TerminalState as one value.
Term == [grid |-> grid, title |-> title, parser |-> parser,
         current_fg |-> current_fg, current_bg |-> current_bg,
         current_attrs |-> current_attrs]

\* The parser holds at most MaxCsiParams parameters of at most MaxCsiValue and
\* at most MaxOscLen payload bytes.
RECURSIVE SumLen(_)
SumLen(ss) == IF ss = <<>> THEN 0 ELSE Len(Head(ss)) + SumLen(Tail(ss))
ParserBounded(pr) ==
    /\ Len(pr.params) < MaxCsiParams
    /\ pr.param <= MaxCsiValue
    /\ Len(pr.osc) + SumLen(pr.osc) <= MaxOscLen + 1


(***************************** search ***************************************)
\* SearchState; query is the sequence of its characters.  The search panics
\* when it slices the line inside a multi-byte character (panicked).
SearchNew == [query |-> <<>>, matches |-> <<>>, current_idx |-> 0,
              panicked |-> FALSE]

\* char::to_lowercase for the characters used here.
Lower(ch) == IF ch = "A" THEN "a" ELSE ch

\* String::to_lowercase
to_lowercase(chars) == [i \in 1..Len(chars) |-> Lower(chars[i])]

\* The number of bytes of the UTF-8 encoding of a character: "W" is a wide
\* (East Asian) character, "z" a combining mark.
Utf8Len(ch) == IF ch = "W" THEN 3 ELSE IF ch = "z" THEN 2 ELSE 1

\* A String as its bytes: byte i of character ch is <<ch, i>>.
RECURSIVE StrOf(_)
StrOf(chars) ==
    IF chars = <<>> THEN <<>>
    ELSE [i \in 1..Utf8Len(Head(chars)) |-> <<Head(chars), i>>]
            \o StrOf(Tail(chars))

\* row.iter().map(|c| c.ch).collect()
RowText(row) == [i \in 1..Len(row) |-> row[i].ch]

\* str::is_char_boundary
IsCharBoundary(str, i) ==
    \/ i = 0
    \/ i = Len(str)
    \/ i < Len(str) /\ str[i + 1][2] = 1

\* lower[start..].find(&q), as a byte offset into lower; -1 for None.
Find(lower, start, q) ==
    LET at == {i \in start..(Len(lower) - Len(q)) :
                  SubSeq(lower, i + 1, i + Len(q)) = q}
    IN IF at = {} THEN -1 ELSE CHOOSE i \in at : \A j \in at : i <= j

\* The while loop of search on one line.
RECURSIVE search_line(_, _, _, _, _)
search_line(st, lower, q, r, start) ==
    IF ~IsCharBoundary(lower, start) THEN [st EXCEPT !.panicked = TRUE]
    ELSE LET abs == Find(lower, start, q)
         IN IF abs < 0 THEN st
            ELSE search_line([st EXCEPT !.matches =
                                 Append(@, [row |-> r, col |-> abs, len |-> Len(q)])],
                             lower, q, r, abs + 1)

\* The for loop of search over the rows from index r on.
RECURSIVE search_rows(_, _, _, _)
search_rows(st, rows, q, r) ==
    IF r >= Len(rows) \/ st.panicked THEN st
    ELSE search_rows(search_line(st, StrOf(to_lowercase(RowText(rows[r + 1]))),
                                 q, r, 0),
                     rows, q, r + 1)

\* SearchState::search that keeps the current index.
search_in_keep_idx(st, scrollback, cells) ==
    LET st0 == [st EXCEPT !.matches = <<>>]
    IN IF st.query = <<>> THEN st0
       ELSE search_rows(st0, scrollback \o cells,
                        StrOf(to_lowercase(st.query)), 0)

\* SearchState::search
search_in(st, scrollback, cells) ==
    LET st0 == [st EXCEPT !.matches = <<>>, !.current_idx = 0]
    IN IF st.query = <<>> THEN st0
       ELSE search_rows(st0, scrollback \o cells,
                        StrOf(to_lowercase(st.query)), 0)

\* SearchState::next stepping without the wrap.
search_next_no_wrap(st) ==
    IF st.matches # <<>> /\ st.current_idx + 1 < Len(st.matches)
    THEN [st EXCEPT !.current_idx = st.current_idx + 1]
    ELSE st

\* SearchState::next
search_next(st) ==
    IF st.matches # <<>>
    THEN [st EXCEPT !.current_idx = (st.current_idx + 1) % Len(st.matches)]
    ELSE st

\* SearchState::prev
search_prev(st) ==
    IF st.matches = <<>> THEN st
    ELSE IF st.current_idx = 0
         THEN [st EXCEPT !.current_idx = Len(st.matches) - 1]
         ELSE [st EXCEPT !.current_idx = st.current_idx - 1]

\* SearchState::current_match
current_match(st) == VecGet(st.matches, st.current_idx)

\* col >= m.col && col < m.col + m.len on row m.row
Covers(m, row, col) == m.row = row /\ col >= m.col /\ col < m.col + m.len

\* SearchState::is_match_at
is_match_at(st, row, col) ==
    \E i \in 1..Len(st.matches) : Covers(st.matches[i], row, col)

\* SearchState::is_current_at
is_current_at(st, row, col) ==
    current_match(st).some /\ Covers(current_match(st).val, row, col)

\* The rendering loop on the cell at viewport row row_idx, column col_idx:
\* the highlights it draws, none when visible_row gives no row or the row has
\* no such cell.
Rendered(g, st, row_idx, col_idx) ==
    LET row == visible_row(g, row_idx)
    IN IF row.some /\ col_idx < Len(row.val)
       THEN [drawn |-> TRUE,
             is_match |-> is_match_at(st, row_idx, col_idx),
             is_current |-> is_current_at(st, row_idx, col_idx)]
       ELSE [drawn |-> FALSE, is_match |-> FALSE, is_current |-> FALSE]

(***************************** the PTY ***************************************)
\* PtyHandle and its threads.  child: the spawned process ("run", "wblocked"
\* blocked writing output, "exited"); written: bytes it has written, byte n
\* being the number n; out: child output buffered in the PTY; inp: input
\* writes buffered in the PTY; reader: the reader thread ("read" in
\* reader.read, "send" about to send hand, "blocked" parked in tx.send on a
\* full channel, "done" returned, tx dropped); queue: the channel; rx_open: the
\* PtyHandle (and rx) exists; ui: the thread that owns the PtyHandle ("idle",
\* "polling" in the loop of poll_pty, "polled" between poll_pty and is_alive
\* in update, "wblocked" blocked in write_all);
\* closed_seen: try_recv reported the channel disconnected.  readlog and fed
\* record the bytes read from the PTY and the bytes passed to process_bytes.
\* alive: what the last call of is_alive returned ("unseen" before the first);
\* size: the window size the PTY holds; res: what spawn returned.
PtyNew ==
    [child |-> "run", written |-> 0, out |-> <<>>, inp |-> 0,
     reader |-> "read", hand |-> <<>>, queue |-> <<>>, rx_open |-> TRUE,
     ui |-> "idle", closed_seen |-> FALSE, readlog |-> <<>>, fed |-> <<>>,
     alive |-> "unseen", size |-> <<InitRows, InitCols>>, res |-> "ok"]

\* child.try_wait(): Ok(None) while the process runs, Ok(Some(status)) once
\* it has exited.
try_wait(p) == IF p.child = "exited" THEN "some" ELSE "none"

\* is_alive judged by the reader thread instead of the child.
is_alive_by_reader(p) == p.reader # "done"

\* PtyHandle::is_alive
is_alive(p) == try_wait(p) = "none"

\* PtyHandle::spawn, fail naming the call that fails ("none": no call does).
\* Each failing call returns the error with `?`: after openpty or
\* spawn_command nothing has been created; after take_writer or
\* try_clone_reader the child has been launched and its handle and the PTY
\* pair are dropped.  The reader thread is started after the last of them.
spawn(rows, cols, fail) ==
    CASE fail \in {"openpty", "spawn_command"} ->
            [PtyNew EXCEPT !.child = "none", !.reader = "none", !.rx_open = FALSE,
                           !.size = <<0, 0>>, !.res = "err"]
      [] fail \in {"take_writer", "try_clone_reader"} ->
            [PtyNew EXCEPT !.child = "run", !.reader = "none", !.rx_open = FALSE,
                           !.size = <<rows, cols>>, !.res = "err"]
      [] OTHER -> [PtyNew EXCEPT !.size = <<rows, cols>>]

\* The fields of Spiltixal next to term and pty: term_rows and term_cols;
\* frame counts the calls of sync_terminal_size modulo 2, failed tells that
\* the last of them had its pty.resize fail, spawn_fail names the call that
\* failed in PtyHandle::spawn.
AppNew ==
    [term_rows |-> InitRows, term_cols |-> InitCols, frame |-> 0,
     failed |-> FALSE, spawn_fail |-> "none"]

\* rows as u16
AsU16(v) == v % 65536

\* PtyHandle::resize, ok telling whether the master accepts the size.
pty_resize(p, rows, cols, ok) ==
    IF ok THEN [p EXCEPT !.size = <<rows, cols>>] ELSE p

\* rx.try_recv() taking the newest chunk.
try_recv_newest(queue) ==
    [chunk |-> queue[Len(queue)], rest |-> SubSeq(queue, 1, Len(queue) - 1)]

\* rx.try_recv() on a non-empty channel: the oldest chunk.
try_recv(queue) == [chunk |-> Head(queue), rest |-> Tail(queue)]

\* Ok(0) | Err(_) => break, with the loop going on instead.
read_end_retry(p) == p

\* Ok(0) | Err(_) => break: the thread returns and tx is dropped.
read_end(p) == [p EXCEPT !.reader = "done"]

\* Ok(n) => the chunk buf[..n] is taken from the PTY.
read_chunk(p, n) ==
    [p EXCEPT !.hand = SubSeq(p.out, 1, n),
              !.out = SubSeq(p.out, n + 1, Len(p.out)),
              !.readlog = p.readlog \o SubSeq(p.out, 1, n),
              !.reader = "send"]

\* tx.send(chunk) completing.
send_chunk(p) ==
    [p EXCEPT !.queue = Append(p.queue, p.hand), !.hand = <<>>, !.reader = "read"]

(***************************** history variables ****************************)
\* track selects what is recorded next to the program state: "off" nothing,
\* "ops", "sgr" and "ext" the operation applied last when it is one of
\* Recorded (last; "ext" with the pen it started from), "scroll" the rows
\* scroll_up has removed so far (evicted), "wrap" the current run of narrow
\* prints (run), "step" the operation applied last when it is ESC [ 1 T,
\* ESC [ 1 K or ESC [ 1 P.
NoTwin == [grid |-> GridNew(1, 1, 0), title |-> TitleDefault,
           parser |-> ParserNew, current_fg |-> Default,
           current_bg |-> Default, current_attrs |-> AttrsDefault]
NoRun  == [on |-> FALSE, y |-> 0, chars |-> <<>>]
NoLast == [op |-> "none", ch |-> "", final |-> "", ps |-> <<>>,
           x |-> 0, y |-> 0, dirty |-> FALSE, styled |-> FALSE,
           pen |-> PenDefault, k |-> 0]

\* Some live cell differs from the default cell.
Dirty(g) == \E y \in 1..Len(g.cells) : \E x \in 1..Len(g.cells[y]) :
                g.cells[y][x] # CellDefault

\* The operation being applied, with the cursor it starts from, whether the
\* grid holds anything, whether the pen is set and the pen it starts with.
Op(op, ch, final, ps) ==
    [op |-> op, ch |-> ch, final |-> final, ps |-> ps,
     x |-> grid.cursor_x, y |-> grid.cursor_y, dirty |-> Dirty(grid),
     styled |-> (current_fg # Default \/ current_bg # Default
                    \/ current_attrs # AttrsDefault),
     pen |-> IF track = "ext"
             THEN [fg |-> current_fg, bg |-> current_bg, attrs |-> current_attrs]
             ELSE PenDefault,
     k |-> 0]

\* Whole sequences the Performer has no arm for: CSI x without and with
\* parameters, and DCS strings ended by ESC \ without and with parameters and
\* data (a printable byte and LF).
InertSeqs == {<<27, 91, 120>>, <<27, 91, 50, 59, 49, 120>>,
              <<27, 80, 113, 27, 92>>,
              <<27, 80, 49, 59, 50, 113, 97, 10, 27, 92>>}

\* Whole sequences the Performer acts on: a, LF, SGR 1, OSC 2 and CSI H.
PlainSeqs == {<<97>>, <<10>>, <<27, 91, 49, 109>>,
              <<27, 93, 50, 59, 97, 7>>, <<27, 91, 72>>}

\* OSC sequences ended by BEL: OSC 0 ; b, OSC 1 ; b, OSC 0 without a
\* parameter and OSC 0 with the parameter 255.
OscSeqs == {<<27, 93, 48, 59, 98, 7>>, <<27, 93, 49, 59, 98, 7>>,
            <<27, 93, 48, 7>>, <<27, 93, 48, 59, 255, 7>>}

\* CSI r without parameters and with the top alone: ESC [ r and ESC [ 2 r.
RegionSeqs == {<<27, 91, 114>>, <<27, 91, 50, 114>>}

Recorded(l) ==
    CASE track = "ops" -> \/ l.op = "print" /\ l.ch = "W"
                          \/ l.op = "csi" /\ l.final = "J"
      [] track = "sgr" -> l.op = "csi" /\ l.final = "m"
      [] track = "ext" -> l.op = "csi" /\ l.final = "m"
      [] track = "feed" -> l.op = "feed" /\ l.ps = <<109, 97>> /\ l.k = 1
      [] track = "inert" -> l.op = "feed" /\ l.ps \in InertSeqs \cup OscSeqs \cup RegionSeqs /\ l.k = 1
      [] track = "view" -> l.op = "scroll"
      [] track = "step" -> l.op = "csi" /\ l.final \in {"T", "K", "P"} /\ l.ps = <<1>>
      [] OTHER -> FALSE

\* The run of consecutive narrow prints that began with the cursor at column 0
\* of a row above scroll_bot, followed for cols + 1 characters.
RunNext(l) ==
    IF l.op = "print" /\ Clamp(UnicodeWidth(l.ch), 1, 2) = 1
    THEN IF run.on /\ Len(run.chars) <= grid.cols
         THEN [run EXCEPT !.chars = Append(run.chars, l.ch)]
         ELSE IF grid.cursor_x = 0 /\ grid.cursor_y < grid.scroll_bot
              THEN [on |-> TRUE, y |-> grid.cursor_y, chars |-> <<l.ch>>]
              ELSE NoRun
    ELSE NoRun

\* The grid becomes r (the result of one handler); the history follows.
Commit(r, l) ==
    /\ ~grid.panicked
    /\ ~search.panicked
    /\ grid' = [r EXCEPT !.evlog = <<>>]
    /\ evicted' = IF track = "scroll" THEN evicted \o r.evlog ELSE evicted
    /\ Len(evicted') <= MaxEvict
    /\ run' = IF track = "wrap" THEN RunNext(l) ELSE run
    /\ last' = IF Recorded(l) THEN l ELSE NoLast
    /\ UNCHANGED <<track, title, parser, search, pty, twin, app>>

(***************************** actions **************************************)
\* Perform::print
perform_print(ch) ==
    /\ Commit(put_char(grid, ch, current_fg, current_bg, current_attrs),
              Op("print", ch, "", <<>>))
    /\ UNCHANGED pen

\* Perform::execute
perform_execute(byte) ==
    /\ Commit(execute(grid, byte), Op("execute", "", "", <<byte>>))
    /\ UNCHANGED pen

\* Perform::csi_dispatch
csi_dispatch(ps, action) ==
    LET p == handle_sgr([fg |-> current_fg, bg |-> current_bg,
                         attrs |-> current_attrs], ps)
    IN /\ Commit(IF action = "m" THEN grid ELSE csi_grid(grid, ps, action),
                 Op("csi", "", action, ps))
       /\ current_fg'    = IF action = "m" THEN p.fg ELSE current_fg
       /\ current_bg'    = IF action = "m" THEN p.bg ELSE current_bg
       /\ current_attrs' = IF action = "m" THEN p.attrs ELSE current_attrs

\* Perform::esc_dispatch
esc_dispatch(byte) ==
    /\ Commit(esc_grid(grid, byte), Op("esc", "", byte, <<>>))
    /\ UNCHANGED pen

\* TerminalState::resize
term_resize(rows, cols) ==
    /\ Commit(resize(grid, rows, cols), Op("resize", "", "", <<rows, cols>>))
    /\ UNCHANGED pen

\* handle_terminal_scroll with the offset not limited by the scrollback.
handle_terminal_scroll_unclamped(up, lines) ==
    /\ Commit([grid EXCEPT !.scroll_offset =
                   IF up THEN grid.scroll_offset + lines
                   ELSE Max(grid.scroll_offset - lines, 0)],
              Op("scroll", "", "", <<lines>>))
    /\ grid'.scroll_offset <= MaxScrollback + MaxLines
    /\ UNCHANGED pen

\* Spiltixal::handle_terminal_scroll with the pointer over the terminal and a
\* scroll delta other than 0, upwards (dy > 0) or downwards, of lines >= 1
\* lines.
handle_terminal_scroll(up, lines) ==
    LET max_offset == Len(grid.scrollback)
    IN /\ Commit([grid EXCEPT !.scroll_offset =
                      IF up THEN Min(grid.scroll_offset + lines, max_offset)
                      ELSE Max(grid.scroll_offset - lines, 0)],
                 Op("scroll", "", "", <<lines>>))
       /\ UNCHANGED pen

\* TerminalState::process_bytes on one chunk; twin is the same terminal fed
\* the chunk as two chunks, split after byte k.
feed(bytes, k) ==
    \E fed \in {[c \in {"whole", "split"} |->
                  process_chunks(IF c = "whole" THEN Term ELSE twin,
                                 IF c = "whole" THEN <<bytes>>
                                 ELSE <<SubSeq(bytes, 1, k),
                                        SubSeq(bytes, k + 1, Len(bytes))>>,
                                 1)]} :
    \E l \in {[Op("feed", "", "", bytes) EXCEPT !.k = k]} :
       /\ ~grid.panicked
       /\ ParserBounded(fed.whole.parser)
       /\ grid' = [fed.whole.grid EXCEPT !.evlog = <<>>]
       /\ title' = fed.whole.title
       /\ parser' = fed.whole.parser
       /\ current_fg' = fed.whole.current_fg
       /\ current_bg' = fed.whole.current_bg
       /\ current_attrs' = fed.whole.current_attrs
       /\ twin' = [fed.split EXCEPT !.grid.evlog = <<>>]
       /\ last' = IF Recorded(l) THEN l ELSE NoLast
       /\ UNCHANGED <<search, pty, track, evicted, run, app>>

\* The search bar: the query is edited and search runs on the terminal's
\* scrollback and cells; Next and Prev; closing it clears query and matches.
\* last keeps the operation, the one before it (ch), the current index
\* before each (k, y) and, for Next, how many times it has been pressed since
\* the search, up to the number of matches (x).
SearchOp(op) ==
    [NoLast EXCEPT !.op = op, !.k = search.current_idx,
                   !.ch = last.op, !.y = last.k,
                   !.x = IF op # "next" THEN 0
                         ELSE IF last.op = "search" THEN 1
                         ELSE IF last.op = "next" /\ last.x > 0
                                 /\ last.x < Len(search.matches)
                              THEN last.x + 1
                         ELSE 0]

SearchStep(st, op) ==
    /\ ~grid.panicked
    /\ ~search.panicked
    /\ search' = st
    /\ last' = SearchOp(op)
    /\ UNCHANGED <<grid, pen, title, parser, pty, track, evicted, run, twin, app>>

ui_search(q) ==
    SearchStep(search_in([search EXCEPT !.query = q], grid.scrollback, grid.cells),
               "search")

ui_next == SearchStep(search_next(search), "next")

ui_prev == SearchStep(search_prev(search), "prev")

ui_close == SearchStep([search EXCEPT !.query = <<>>, !.matches = <<>>], "close")

\* A step of the PTY session: the terminal is left alone (the bytes here are
\* abstract; what process_bytes does with a chunk is the action feed).
PtyStep(p) ==
    /\ pty' = p
    /\ UNCHANGED <<grid, pen, title, parser, search, track, evicted, run, last, twin,
                   app>>

\* The child process writes a byte to its terminal, blocks when the PTY
\* buffer is full, reads its input, exits.
child_write ==
    /\ pty.child \in {"run", "wblocked"}
    /\ pty.written < MaxStream
    /\ Len(pty.out) < OutCap
    /\ PtyStep([pty EXCEPT !.out = Append(pty.out, pty.written + 1),
                           !.written = pty.written + 1, !.child = "run"])

child_block ==
    /\ pty.child = "run"
    /\ pty.written < MaxStream
    /\ Len(pty.out) = OutCap
    /\ PtyStep([pty EXCEPT !.child = "wblocked"])

child_read ==
    /\ pty.child = "run"
    /\ pty.inp > 0
    /\ PtyStep([pty EXCEPT !.inp = pty.inp - 1])

child_exit ==
    /\ pty.child \in {"run", "wblocked"}
    /\ PtyStep([pty EXCEPT !.child = "exited"])

\* The reader thread: reader.read(&mut buf) returns Ok(n), n > 0.
reader_read(n) ==
    /\ pty.reader = "read"
    /\ n \in 1..Min(Len(pty.out), MaxRead)
    /\ PtyStep(read_chunk(pty, n))

\* reader.read returns Ok(0) or the error of a closed PTY.
reader_eof ==
    /\ pty.reader = "read"
    /\ pty.out = <<>>
    /\ pty.child = "exited"
    /\ PtyStep(read_end(pty))

\* reader.read fails for any other reason.
reader_error ==
    /\ pty.reader = "read"
    /\ pty.child # "exited"
    /\ PtyStep(read_end(pty))

\* tx.send(chunk): completes when the channel has room,
reader_send ==
    /\ pty.reader \in {"send", "blocked"}
    /\ pty.rx_open
    /\ Len(pty.queue) < QueueCap
    /\ PtyStep(send_chunk(pty))

\* blocks while the channel is full,
reader_park ==
    /\ pty.reader = "send"
    /\ pty.rx_open
    /\ Len(pty.queue) = QueueCap
    /\ PtyStep([pty EXCEPT !.reader = "blocked"])

\* and fails when the receiver is gone: break.
reader_send_fail ==
    /\ pty.reader \in {"send", "blocked"}
    /\ ~pty.rx_open
    /\ PtyStep([pty EXCEPT !.reader = "done", !.hand = <<>>])

\* poll_pty: the while loop starts,
ui_poll ==
    /\ pty.ui = "idle"
    /\ pty.rx_open
    /\ PtyStep([pty EXCEPT !.ui = "polling"])

\* and each try_recv passes a chunk to process_bytes or ends the loop.
ui_try_recv ==
    /\ pty.ui = "polling"
    /\ PtyStep(IF pty.queue # <<>>
               THEN [pty EXCEPT !.queue = try_recv(pty.queue).rest,
                                !.fed = pty.fed \o try_recv(pty.queue).chunk]
               ELSE [pty EXCEPT !.ui = "polled",
                                !.closed_seen = (pty.reader = "done")])

\* update, after poll_pty: is_alive; a dead child closes the viewport.
ui_is_alive ==
    /\ pty.ui = "polled"
    /\ PtyStep([pty EXCEPT !.ui = "idle",
                           !.alive = IF is_alive(pty) THEN "yes" ELSE "no"])

\* send_input: write_str returns at once when the PTY takes the bytes or the
\* child is gone, and blocks in write_all while the PTY input buffer is full.
ui_send_input ==
    /\ pty.ui = "idle"
    /\ pty.rx_open
    /\ PtyStep(IF pty.child = "exited" THEN pty
               ELSE IF pty.inp < InCap THEN [pty EXCEPT !.inp = pty.inp + 1]
               ELSE [pty EXCEPT !.ui = "wblocked"])

ui_write_resume ==
    /\ pty.ui = "wblocked"
    /\ pty.child = "exited" \/ pty.inp < InCap
    /\ PtyStep(IF pty.child = "exited" THEN [pty EXCEPT !.ui = "idle"]
               ELSE [pty EXCEPT !.ui = "idle", !.inp = pty.inp + 1])

\* The application goes away: the PtyHandle and with it rx are dropped.  Drop
\* for Spiltixal kills and waits for ollama_child only, and dropping the child
\* handle of the PtyHandle neither kills nor waits for the process.
drop_handle ==
    /\ pty.ui = "idle"
    /\ pty.rx_open
    /\ PtyStep([pty EXCEPT !.rx_open = FALSE, !.queue = <<>>])

\* Spiltixal::sync_terminal_size for a rect of h by w whole cells.
sync_terminal_size(h, w, ok) ==
    LET rows == Max(h, 2)
        cols == Max(w, 8)
    IN /\ ~grid.panicked
       /\ pty.ui = "idle"
       /\ IF rows = app.term_rows /\ cols = app.term_cols
          THEN /\ app' = [app EXCEPT !.frame = 1 - app.frame, !.failed = FALSE]
               /\ UNCHANGED <<grid, pty>>
          ELSE /\ app' = [app EXCEPT !.term_rows = rows, !.term_cols = cols,
                                     !.frame = 1 - app.frame,
                                     !.failed = (pty.rx_open /\ ~ok)]
               /\ grid' = resize(grid, rows, cols)
               /\ pty' = IF pty.rx_open
                         THEN pty_resize(pty, AsU16(rows), AsU16(cols), ok)
                         ELSE pty
       /\ UNCHANGED <<pen, title, parser, search, track, evicted, run, last, twin>>

(***************************** inputs ***************************************)
Sizes(n)   == 1..n
ParamLists1 == {<<>>} \cup {<<a>> : a \in 0..MaxParam}
ParamLists2 == ParamLists1 \cup {<<a, b>> : a \in 0..MaxParam, b \in 0..MaxParam}
ExecBytes  == {BS, TAB, LF, VT, FF, CR, BEL}
EscFinals  == {"M", "7"}
\* Final bytes that read one parameter, and those that read two; "x" is a
\* final byte csi_dispatch does not recognise.
CsiFinals1 == {"A", "B", "C", "D", "J", "K", "S", "L", "T", "M", "d", "G", "P", "@", "x"}
CsiFinals2 == {"H", "f", "r"}
CsiInputs  == (ParamLists1 \X CsiFinals1) \cup (ParamLists2 \X CsiFinals2)

\* SGR parameter lists: every list of at most MaxSgrLen of these codes, and
\* extended-colour sequences, complete and cut short, with and without a
\* trailing 0.
SgrCodes == {0, 1, 2, 5, 31, 38, 41}
RECURSIVE ListsUpTo(_, _)
ListsUpTo(S, n) ==
    IF n = 0 THEN {<<>>}
    ELSE LET shorter == ListsUpTo(S, n - 1)
         IN shorter \cup {Append(l, c) : l \in shorter, c \in S}
SgrLists ==
    ListsUpTo(SgrCodes, MaxSgrLen)
        \cup {<<1, 31, 0>>, <<38, 5, 0>>, <<38, 2, 0>>, <<38, 2, 1, 2, 0>>,
              <<38, 2, 1, 2, 3, 0>>, <<48, 5, 7>>, <<48, 5, 7, 0>>, <<38, 9, 0>>}

\* Extended-colour sequences: well formed (38/48 ; 2 ; r ; g ; b and
\* 38/48 ; 5 ; n), with an unsupported sub-selector, and cut short; and plain
\* codes that set the pen before them.
ExtLists ==
    {<<38, 2, 1, 2, 3>>, <<38, 5, 7>>, <<48, 2, 1, 2, 3>>, <<48, 5, 7>>,
     <<38>>, <<48>>, <<38, 9>>, <<48, 9>>, <<38, 31>>, <<38, 5>>, <<48, 5>>,
     <<38, 2>>, <<38, 2, 1>>, <<38, 2, 31>>, <<48, 2, 41>>, <<38, 2, 1, 2>>,
     <<0>>, <<1>>, <<32>>, <<42>>}

\* TerminalState::new, for the geometries rs x cs and the scrollback caps ms.
InitWith(t, rs, cs, ms) ==
    /\ \E r \in rs, c \in cs, m \in ms : grid = GridNew(r, c, m)
    /\ current_fg = Default
    /\ current_bg = Default
    /\ current_attrs = AttrsDefault
    /\ title = TitleDefault
    /\ parser = ParserNew
    /\ search = SearchNew
    /\ pty = PtyNew
    /\ app = AppNew
    /\ twin = IF t \in {"feed", "inert"} THEN Term ELSE NoTwin
    /\ track = t
    /\ evicted = <<>>
    /\ run = NoRun
    /\ last = NoLast

(***************************** the terminal *********************************)
\* The terminal under every handler and resize; the scrollback is followed in
\* SpecScroll and SpecStep.
Init == InitWith("off", Sizes(MaxRows), Sizes(MaxCols), {0})

Next ==
    \/ \E ch \in {"a", "W"} : perform_print(ch)
    \/ \E byte \in ExecBytes : perform_execute(byte)
    \/ \E in \in CsiInputs : csi_dispatch(in[1], in[2])
    \/ \E byte \in EscFinals : esc_dispatch(byte)
    \/ \E r \in Sizes(MaxRows), c \in Sizes(MaxCols) : term_resize(r, c)

Spec == Init /\ [][Next]_vars

(***************************** single operations ****************************)
\* The same terminal without scrollback, recording wide prints and CSI J.
InitOps == InitWith("ops", Sizes(MaxRows), Sizes(MaxCols), {0})

NextOps ==
    \/ \E ch \in {"a", "W"} : perform_print(ch)
    \/ \E byte \in ExecBytes : perform_execute(byte)
    \/ \E in \in CsiInputs : csi_dispatch(in[1], in[2])
    \/ \E byte \in EscFinals : esc_dispatch(byte)
    \/ \E r \in Sizes(MaxRows), c \in Sizes(MaxCols) : term_resize(r, c)

SpecOps == InitOps /\ [][NextOps]_vars

(***************************** scrollback ***********************************)
\* Printing and scrolling with the evicted rows recorded, until MaxEvict rows
\* have been evicted.
InitScroll == InitWith("scroll", Sizes(MaxRows), Sizes(MaxCols), 0..MaxScrollback)

NextScroll ==
    \/ \E ch \in {"a"} : perform_print(ch)
    \/ \E byte \in {LF, CR} : perform_execute(byte)
    \/ \E in \in (ParamLists1 \X {"S", "L", "B"}) \cup (ParamLists2 \X {"r"}) :
            csi_dispatch(in[1], in[2])

SpecScroll == InitScroll /\ [][NextScroll]_vars

(***************************** wrapping *************************************)
\* Printing and cursor positioning with the run of narrow prints recorded.
InitWrap == InitWith("wrap", Sizes(MaxRows), Sizes(MaxCols), {0})

NextWrap ==
    \/ \E ch \in {"a", "b", "z", "W"} : perform_print(ch)
    \/ \E byte \in {LF, CR} : perform_execute(byte)
    \/ \E in \in ParamLists2 \X {"H", "r"} : csi_dispatch(in[1], in[2])

SpecWrap == InitWrap /\ [][NextWrap]_vars

(***************************** the pen **************************************)
\* SGR sequences on a 1 x 1 grid, each recorded.
InitSgr == InitWith("sgr", {1}, {1}, {0})

NextSgr == \E ps \in SgrLists : csi_dispatch(ps, "m")

SpecSgr == InitSgr /\ [][NextSgr]_vars

\* Extended-colour SGR sequences on a 1 x 1 grid, each recorded with the pen
\* before it.
InitExt == InitWith("ext", {1}, {1}, {0})

NextExt == \E ps \in ExtLists : csi_dispatch(ps, "m")

SpecExt == InitExt /\ [][NextExt]_vars

(***************************** chunked input ********************************)
\* Chunks of at most MaxChunk bytes of ESC [ ] ; 2 m a BEL, each fed whole to
\* a 1 x 1 terminal and split in two to its twin: SGR 2 and 22 set and clear
\* dim, OSC 2 with an empty payload sets the empty title.
FeedBytes == {27, 91, 93, 59, 50, 109, 97, 7}
Chunks == ListsUpTo(FeedBytes, MaxChunk) \ {<<>>}

InitFeed == InitWith("feed", {1}, {1}, {0})

NextFeed == \E bytes \in Chunks : \E k \in 0..Len(bytes) : feed(bytes, k)

SpecFeed == InitFeed /\ [][NextFeed]_vars

(***************************** the view *************************************)
\* The terminal printed to, scrolled, resized and viewed through the scroll
\* wheel, with a scrollback of at most MaxScrollback rows.
InitView == InitWith("view", Sizes(MaxRows), {1}, {MaxScrollback})

NextView ==
    \/ \E ch \in {"a"} : perform_print(ch)
    \/ \E byte \in {LF, CR} : perform_execute(byte)
    \/ \E in \in ParamLists1 \X {"S"} : csi_dispatch(in[1], in[2])
    \/ \E r \in Sizes(MaxRows), c \in Sizes(MaxCols) : term_resize(r, c)
    \/ \E up \in BOOLEAN, lines \in 1..MaxLines : handle_terminal_scroll(up, lines)

SpecView == InitView /\ [][NextView]_vars

(***************************** unhandled sequences **************************)
\* The terminal fed whole sequences, those the Performer acts on and those it
\* has no arm for.
InitInert == InitWith("inert", {MaxRows}, {1}, {0})

NextInert ==
    \E bytes \in PlainSeqs \cup InertSeqs \cup OscSeqs \cup RegionSeqs :
        feed(bytes, 1)

SpecInert == InitInert /\ [][NextInert]_vars

(***************************** searching ************************************)
\* A terminal of one row of MaxCols + 1 columns with scrollback, printed to
\* and searched for queries of at most MaxQuery characters.  Output is
\* processed while no match list is held, so every match list is read against
\* the rows it was computed from.
Queries == ListsUpTo({"a", "A", "W"}, MaxQuery)

InitSearch == InitWith("search", {1}, {MaxCols + 1}, {1})

NextSearch ==
    \/ search.matches = <<>> /\ \E ch \in {"A", "W"} : perform_print(ch)
    \/ search.matches = <<>> /\ perform_execute(LF)
    \/ \E q \in Queries : ui_search(q)
    \/ ui_next
    \/ ui_prev
    \/ ui_close

SpecSearch == InitSearch /\ [][NextSearch]_vars

(***************************** the PTY session ******************************)
InitPty == InitWith("pty", {1}, {1}, {0})

NextChild == child_write \/ child_block \/ child_exit

NextReader ==
    \/ \E n \in 1..MaxRead : reader_read(n)
    \/ reader_eof
    \/ reader_error
    \/ reader_send
    \/ reader_park
    \/ reader_send_fail

NextDrain == ui_poll \/ ui_try_recv \/ ui_is_alive

NextPty ==
    \/ NextChild
    \/ child_read
    \/ NextReader
    \/ NextDrain
    \/ ui_send_input
    \/ ui_write_resume
    \/ drop_handle

SpecPty == InitPty /\ [][NextPty]_vars

\* The session with a consumer that only drains, under the scheduler's
\* fairness to the reader thread and to the polling thread.
NextPtyDrain == NextChild \/ NextReader \/ NextDrain \/ drop_handle

SpecPtyDrain ==
    InitPty /\ [][NextPtyDrain]_vars /\ WF_vars(NextReader) /\ WF_vars(NextDrain)

\* The terminal handler by handler, without scrollback and, TallRows rows of one
\* column, with a scrollback of one row, and one row of MaxCols + 1 columns;
\* erase parameters up to and beyond one byte.
EraseParams == {<<4>>, <<255>>, <<256>>, <<258>>}
StepCsi     == CsiInputs \cup (EraseParams \X {"J", "K"})

InitStep ==
    \/ InitWith("step", Sizes(MaxRows), Sizes(MaxCols), {0})
    \/ InitWith("step", {TallRows}, {1}, {1})
    \/ InitWith("step", {1}, {MaxCols + 1}, {0})

NextStep ==
    \/ \E ch \in {"a", "W"} : perform_print(ch)
    \/ \E byte \in ExecBytes : perform_execute(byte)
    \/ \E in \in StepCsi : csi_dispatch(in[1], in[2])
    \/ \E byte \in EscFinals : esc_dispatch(byte)

SpecStep == InitStep /\ [][NextStep]_vars

\* The application after Spiltixal::new, whatever PtyHandle::spawn returned,
\* with its frames, the end of the child and the teardown.
SpawnFails == {"none", "openpty", "spawn_command", "take_writer", "try_clone_reader"}
RectRows   == {1, 3, InitRows}
RectCols   == {7, 9, InitCols}

InitSession ==
    /\ grid = GridNew(InitRows, InitCols, 0)
    /\ current_fg = Default
    /\ current_bg = Default
    /\ current_attrs = AttrsDefault
    /\ title = TitleDefault
    /\ parser = ParserNew
    /\ search = SearchNew
    /\ \E fail \in SpawnFails :
          /\ pty = spawn(InitRows, InitCols, fail)
          /\ app = [AppNew EXCEPT !.spawn_fail = fail]
    /\ twin = NoTwin
    /\ track = "session"
    /\ evicted = <<>>
    /\ run = NoRun
    /\ last = NoLast

NextSession ==
    \/ \E h \in RectRows, w \in RectCols, ok \in BOOLEAN : sync_terminal_size(h, w, ok)
    \/ child_exit
    \/ reader_eof
    \/ reader_error
    \/ NextDrain
    \/ drop_handle

SpecSession == InitSession /\ [][NextSession]_vars

(***************************** claims ***************************************)
\* C1: no grid operation uses a row or column index outside the cell matrix,
\* so no operation panics, whatever bytes and resizes (to sizes >= 1) arrive.
C1_NoPanic == ~grid.panicked

\* C2: in every reachable state scroll_top <= scroll_bot < rows.
C2_ScrollRegion ==
    /\ grid.scroll_top <= grid.scroll_bot
    /\ grid.scroll_bot < grid.rows

\* C3: in every reachable state 0 <= cursor_y < rows and 0 <= cursor_x <= cols.
C3_CursorInBounds ==
    /\ 0 <= grid.cursor_y /\ grid.cursor_y < grid.rows
    /\ 0 <= grid.cursor_x /\ grid.cursor_x <= grid.cols

\* C4: in every reachable state the cell matrix has exactly rows rows and
\* every row has exactly cols cells.
C4_RowsShape ==
    /\ Len(grid.cells) = grid.rows
    /\ \A y \in 1..Len(grid.cells) : Len(grid.cells[y]) = grid.cols

\* C5: the scrollback never holds more than max_scrollback rows, however many
\* rows scroll_up has evicted (by newline at the bottom, CSI S or CSI L).
C5_ScrollbackBounded == Len(grid.scrollback) <= grid.max_scrollback

\* C5 witness: more rows have been evicted than the (positive) cap, and the
\* scrollback is full.
C5_Witness ==
    /\ grid.max_scrollback > 0
    /\ Len(evicted) > grid.max_scrollback
    /\ Len(grid.scrollback) = grid.max_scrollback

\* The last n elements of s.
LastN(s, n) == SubSeq(s, Len(s) - n + 1, Len(s))

\* C6: after N evictions e1..eN the scrollback is the last min(N,
\* max_scrollback) of them, in eviction order.
C6_ScrollbackFifo ==
    track = "scroll" =>
        grid.scrollback = LastN(evicted, Min(Len(evicted), grid.max_scrollback))

\* C6 witness: rows were dropped from a scrollback of two rows that differ,
\* and the row dropped differs from the oldest row kept.
C6_Witness ==
    /\ track = "scroll"
    /\ grid.max_scrollback = 2
    /\ Len(evicted) = 3
    /\ Len(grid.scrollback) = 2
    /\ grid.scrollback[1] # grid.scrollback[2]
    /\ evicted[1] # evicted[2]

\* The first n cells of row y (0-based) are the narrow characters chars[1..n]
\* written with the current pen.
RowHolds(y, chars, n) ==
    /\ y < Len(grid.cells)
    /\ n <= Len(grid.cells[y + 1])
    /\ \A i \in 1..n :
          grid.cells[y + 1][i] =
              Cell(chars[i], current_fg, current_bg, current_attrs, 1)

\* C7 as stated: after cols narrow prints from column 0 of a row y above
\* scroll_bot the cursor is at (0, y + 1) and row y holds the characters.
C7_WrapAfterCols ==
    (run.on /\ Len(run.chars) = grid.cols) =>
        /\ grid.cursor_x = 0
        /\ grid.cursor_y = run.y + 1
        /\ RowHolds(run.y, run.chars, grid.cols)

\* C7 amended: after n <= cols narrow prints from column 0 of a row y above
\* scroll_bot the cursor is at (n, y) - for n = cols the pending-wrap column,
\* with no wrap yet - and row y holds the n characters in order; the next
\* narrow print wraps once: it is written at (0, y + 1), leaves the cursor at
\* (1, y + 1) and row y as it was.
C7_PendingWrap ==
    run.on =>
        LET n == Len(run.chars)
        IN /\ ~grid.panicked
           /\ n <= grid.cols =>
                /\ grid.cursor_x = n
                /\ grid.cursor_y = run.y
                /\ RowHolds(run.y, run.chars, n)
           /\ n = grid.cols + 1 =>
                /\ grid.cursor_x = 1
                /\ grid.cursor_y = run.y + 1
                /\ RowHolds(run.y, run.chars, grid.cols)
                /\ RowHolds(run.y + 1, <<run.chars[n]>>, 1)

\* C7 witness: a full row of at least two columns has just been printed.
C7_Witness ==
    /\ run.on
    /\ grid.cols >= 2
    /\ Len(run.chars) = grid.cols
    /\ grid.cursor_x = grid.cols
    /\ run.chars[1] # run.chars[2]

\* C8: a wide character printed with the cursor in the last column (cols >= 2)
\* wraps first: the glyph goes to column 0 of the next row - the same row index
\* after a scroll when the cursor was at scroll_bot - with its continuation
\* cell in column 1, the cursor ends in column 2 of that row, and the cell that
\* was in the last column of the original row is unchanged (in the row where
\* the scroll moved it, or in the newest scrollback row when it was evicted).
C8_WideAtLastColumn ==
    [][ ( /\ ~grid.panicked
          /\ grid.cols >= 2
          /\ grid.cursor_x = grid.cols - 1
          /\ last'.op = "print" /\ last'.ch = "W" )
        =>
        LET y        == grid.cursor_y
            scrolled == y = grid.scroll_bot
            ny       == IF scrolled THEN y ELSE y + 1
            orig     == grid.cells[y + 1][grid.cols]
        IN /\ ~grid'.panicked
           /\ grid'.cursor_y = ny
           /\ grid'.cursor_x = 2
           /\ ny < Len(grid'.cells)
           /\ grid'.cells[ny + 1][1] =
                 Cell("W", current_fg, current_bg, current_attrs, 2)
           /\ grid'.cells[ny + 1][2] =
                 Cell(" ", current_fg, current_bg, current_attrs, 0)
           /\ IF ~scrolled THEN grid'.cells[y + 1][grid.cols] = orig
              ELSE IF grid.scroll_top < y THEN grid'.cells[y][grid.cols] = orig
              ELSE grid.max_scrollback > 0 =>
                      /\ Len(grid'.scrollback) > 0
                      /\ grid'.scrollback[Len(grid'.scrollback)][grid.cols] = orig
      ]_vars

\* C9: CSI 2 J and CSI 3 J (erase_display(2) and (3)) leave the cursor at
\* (0, 0) and every cell of the live grid equal to the default cell.
C9_EraseDisplayAll ==
    (last.op = "csi" /\ last.final = "J" /\ AsU8(P0(last.ps)) \in {2, 3}) =>
        /\ ~grid.panicked
        /\ grid.cursor_x = 0
        /\ grid.cursor_y = 0
        /\ ~Dirty(grid)

\* C9 witness: CSI 2 J has just run on a grid that held text, with the cursor
\* away from the first row and the first column.
C9_Witness ==
    /\ last.op = "csi" /\ last.final = "J" /\ last.ps = <<2>>
    /\ last.dirty /\ last.x > 0 /\ last.y > 0
    /\ grid.cursor_x = 0 /\ grid.cursor_y = 0 /\ ~Dirty(grid)

\* C10: an SGR sequence with no parameters, or whose last processed code is 0,
\* leaves the pen default (foreground and background Default, no attribute);
\* after SGR 1;31 the pen is bold with foreground Ansi(1).
C10_SgrReset ==
    (last.op = "csi" /\ last.final = "m") =>
        /\ (Len(last.ps) = 0 \/ SgrLastCode(last.ps) = 0) =>
              /\ current_fg = Default
              /\ current_bg = Default
              /\ current_attrs = AttrsDefault
        /\ last.ps = <<1, 31>> =>
              /\ current_attrs.bold
              /\ current_fg = Ansi(1)

\* C10 witness: SGR 0 has just reset a pen that was set.
C10_Witness ==
    /\ last.op = "csi" /\ last.final = "m" /\ last.ps = <<0>>
    /\ last.styled
    /\ current_fg = Default /\ current_bg = Default
    /\ current_attrs = AttrsDefault

\* An SGR parameter list that is one extended-colour code (38 or 48) followed
\* by an unsupported sub-selector or by too few tokens, and nothing else.
MalformedExt(ps) ==
    /\ Len(ps) >= 1
    /\ ps[1] \in {38, 48}
    /\ \/ Len(ps) = 1
       \/ Len(ps) = 2 /\ ps[2] # 2
       \/ Len(ps) \in 2..4 /\ ps[2] = 2

\* C11: SGR 38;2;r;g;b sets the foreground to Rgb(r,g,b) and SGR 38;5;n sets
\* it to Ansi256(n), 48 likewise for the background; SGR 38 (48) followed by an
\* unsupported sub-selector or by too few tokens leaves the foreground
\* (background) as it was.
C11_ExtColour ==
    (last.op = "csi" /\ last.final = "m" /\ Len(last.ps) >= 1) =>
        LET ps == last.ps
        IN /\ (Len(ps) = 5 /\ ps[1] = 38 /\ ps[2] = 2) =>
                 current_fg = Rgb(ps[3], ps[4], ps[5])
           /\ (Len(ps) = 3 /\ ps[1] = 38 /\ ps[2] = 5) =>
                 current_fg = Ansi256(ps[3])
           /\ (Len(ps) = 5 /\ ps[1] = 48 /\ ps[2] = 2) =>
                 current_bg = Rgb(ps[3], ps[4], ps[5])
           /\ (Len(ps) = 3 /\ ps[1] = 48 /\ ps[2] = 5) =>
                 current_bg = Ansi256(ps[3])
           /\ (MalformedExt(ps) /\ ps[1] = 38) => current_fg = last.pen.fg
           /\ (MalformedExt(ps) /\ ps[1] = 48) => current_bg = last.pen.bg

\* C12: SGR 38 or 48 followed by an unsupported sub-selector or by too few
\* tokens is dropped with its partial tail: the pen (foreground, background
\* and attributes) after it equals the pen before it.
C12_ExtDropped ==
    (last.op = "csi" /\ last.final = "m" /\ MalformedExt(last.ps)) =>
        /\ current_fg = last.pen.fg
        /\ current_bg = last.pen.bg
        /\ current_attrs = last.pen.attrs

\* C13: feeding is insensitive to chunk boundaries: after every chunk the
\* terminal fed the chunk whole and the terminal fed it in two pieces have the
\* same grid, cursor, scroll region, scrollback, pen, title and parser state.
C13_ChunkInsensitive == track = "feed" => twin = Term

\* C13 witness: a chunk was split between the final byte of an SGR sequence
\* begun in an earlier chunk and a printed character, and the character
\* carries the attribute the sequence set.
C13_Witness ==
    /\ track = "feed"
    /\ last.op = "feed" /\ last.ps = <<109, 97>> /\ last.k = 1
    /\ ~last.styled
    /\ current_attrs.dim
    /\ \E y \in 1..Len(grid.cells) : \E x \in 1..Len(grid.cells[y]) :
          grid.cells[y][x].ch = "a" /\ grid.cells[y][x].attrs.dim

\* The row's text contains q case-insensitively starting at column c.
ContainsAt(text, c, q) ==
    /\ c + Len(q) <= Len(text)
    /\ \A j \in 1..Len(q) : Lower(text[c + j]) = Lower(q[j])

\* C14: after search with a non-empty query q the match list holds exactly one
\* entry (r, c, length of q) for every row r of scrollback-then-grid and every
\* column c at which the row's text contains q case-insensitively, in
\* ascending (row, col) order; with an empty query it is empty; the search
\* does not panic.
C14_SearchMatches ==
    last.op = "search" =>
        LET q    == search.query
            rows == grid.scrollback \o grid.cells
            ms   == search.matches
        IN /\ ~search.panicked
           /\ q = <<>> => ms = <<>>
           /\ q # <<>> =>
                /\ {ms[i] : i \in 1..Len(ms)} =
                      {[row |-> r, col |-> c, len |-> Len(q)] :
                          <<r, c>> \in {rc \in (0..(Len(rows) - 1)) \X (0..grid.cols) :
                                           ContainsAt(RowText(rows[rc[1] + 1]), rc[2], q)}}
                /\ \A i \in 1..(Len(ms) - 1) :
                      \/ ms[i].row < ms[i + 1].row
                      \/ ms[i].row = ms[i + 1].row /\ ms[i].col < ms[i + 1].col

\* C15: with k >= 1 matches Next and Prev move the current-match index by +1
\* and -1 modulo k, so Next pressed k times from the first match is back at the
\* first match, Prev from index 0 goes to k - 1, and Prev after Next (Next
\* after Prev) restores the index; with no match both leave it alone.
C15_NextPrevCycle ==
    LET k == Len(search.matches)
        i == search.current_idx
    IN /\ last.op = "next" => i = IF k >= 1 THEN (last.k + 1) % k ELSE last.k
       /\ last.op = "prev" => i = IF k >= 1 THEN (last.k + k - 1) % k ELSE last.k
       /\ (last.op = "next" /\ k >= 1 /\ last.x = k) => i = 0
       /\ (last.op = "prev" /\ k >= 1 /\ last.k = 0) => i = k - 1
       /\ (last.op = "prev" /\ last.ch = "next" /\ k >= 1) => i = last.y
       /\ (last.op = "next" /\ last.ch = "prev" /\ k >= 1) => i = last.y

\* C15 witness: with at least two matches Next has been pressed once per match
\* since the search and is back at the first match.
C15_Witness ==
    /\ last.op = "next"
    /\ Len(search.matches) >= 2
    /\ last.x = Len(search.matches)
    /\ last.k = Len(search.matches) - 1
    /\ search.current_idx = 0

\* C16: after resize(new_rows, new_cols) with new_rows >= 1 and new_cols >= 1
\* from any reachable state the cursor and the scroll region are within the
\* new geometry: cursor_x < new_cols, cursor_y < new_rows and
\* scroll_top <= scroll_bot < new_rows.
C16_ResizeClamps ==
    [][\A r \in Sizes(MaxRows), c \in Sizes(MaxCols) :
          term_resize(r, c) =>
              /\ grid'.cursor_x < c
              /\ grid'.cursor_y < r
              /\ grid'.scroll_top <= grid'.scroll_bot
              /\ grid'.scroll_bot < r]_vars

\* The concatenation of the chunks of a queue.
RECURSIVE Flat(_)
Flat(q) == IF q = <<>> THEN <<>> ELSE Head(q) \o Flat(Tail(q))

\* C17: bytes reach the interpreter in the order the reader thread read them:
\* the bytes passed to process_bytes are a prefix of the bytes read from the
\* PTY, and while the session runs the bytes read are exactly those passed on,
\* those queued and those in the reader's hand, in that order (nothing lost,
\* duplicated or reordered).
C17_OrderPreserved ==
    /\ Len(pty.fed) <= Len(pty.readlog)
    /\ pty.fed = SubSeq(pty.readlog, 1, Len(pty.fed))
    /\ pty.rx_open => pty.fed \o Flat(pty.queue) \o pty.hand = pty.readlog

\* C17 witness: two chunks have been passed on while more were queued behind
\* them.
C17_Witness ==
    /\ Len(pty.fed) >= 3
    /\ pty.queue # <<>>
    /\ pty.hand # <<>>

\* C18: the reader thread's send never blocks: with the queue full or closed,
\* or a failed read, the thread terminates.
C18_SendFailFast == pty.reader # "blocked"

\* C19: the state in which the consumer is blocked in write_str, the child is
\* blocked writing output and the reader thread is blocked sending into the
\* full queue is unreachable.
C19_NoDeadlock ==
    ~(pty.ui = "wblocked" /\ pty.child = "wblocked" /\ pty.reader = "blocked")

\* C20: once the reader thread has terminated it stays terminated, reads and
\* sends nothing more; and the end of the child's output leads to the reader
\* thread terminated and, for a consumer that keeps draining, to every chunk
\* read having been passed on and the channel seen closed.
C20_ReaderTermination ==
    /\ [][pty.reader = "done" =>
            /\ pty'.reader = "done"
            /\ pty'.readlog = pty.readlog
            /\ Len(pty'.queue) <= Len(pty.queue)]_vars
    /\ (pty.child = "exited") ~>
            /\ pty.reader = "done"
            /\ pty.rx_open =>
                  /\ pty.closed_seen
                  /\ pty.queue = <<>>
                  /\ pty.fed = pty.readlog

\* C20 witness: the child has exited, the reader thread has terminated on the
\* end of its output and the consumer has received all of it and seen the
\* channel closed.
C20_Witness ==
    /\ pty.child = "exited"
    /\ pty.reader = "done"
    /\ pty.rx_open
    /\ pty.closed_seen
    /\ pty.queue = <<>>
    /\ Len(pty.readlog) >= 3
    /\ pty.fed = pty.readlog

\* C21: every is_alive of update returns true while the child runs and false
\* once it has exited; after a false it never returns true again; and once the
\* child has exited and the reader thread has seen the end of its output, the
\* polling thread's next is_alive returns false.
C21_IsAlive ==
    /\ [][(pty.ui = "polled" /\ pty'.ui = "idle") =>
            pty'.alive = IF pty.child = "exited" THEN "no" ELSE "yes"]_vars
    /\ [][pty.alive = "no" => pty'.alive = "no"]_vars
    /\ (pty.child = "exited" /\ pty.reader = "done") ~>
            (pty.rx_open => pty.alive = "no")

\* C21 witness: is_alive returned true while the child ran, the child exited,
\* the reader thread saw the end of file and the next is_alive returned false.
C21_Witness ==
    /\ pty.child = "exited"
    /\ pty.reader = "done"
    /\ pty.closed_seen
    /\ pty.rx_open
    /\ pty.alive = "no"
    /\ pty.fed # <<>>

\* C22: once the application and its PtyHandle have been dropped, the child
\* process that spawn started is no longer running.
C22_ChildKilled ==
    (pty.res = "ok" /\ ~pty.rx_open) => pty.child = "exited"

\* C23: after every sync_terminal_size the grid has the size the PTY accepted
\* last, a frame whose pty.resize failed excepted: the divergence it leaves is
\* gone after the next frame's sync.
C23_Lockstep ==
    [][(app'.frame # app.frame /\ pty'.rx_open /\ ~app'.failed) =>
          pty'.size = <<grid'.rows, grid'.cols>>]_vars

\* C24: spawn returns an error exactly when one of openpty, spawn_command,
\* take_writer and try_clone_reader fails, and after an error there is no
\* reader thread and no running child.
C24_SpawnFailure ==
    /\ pty.res = "err" <=> app.spawn_fail # "none"
    /\ pty.res = "err" => /\ pty.reader = "none"
                          /\ pty.child \notin {"run", "wblocked"}

\* The scroll region is within the grid.
ValidRegion(g) == g.scroll_top <= g.scroll_bot /\ g.scroll_bot < g.rows

\* The rows c with the rows of [top, bot] shifted up resp. down by n and blank
\* rows in the places left.
RegionUp(c, top, bot, n, cols) ==
    [y \in 1..Len(c) |->
        IF y - 1 < top \/ y - 1 > bot THEN c[y]
        ELSE IF y - 1 + n <= bot THEN c[y + n] ELSE BlankRow(cols)]

RegionDown(c, top, bot, n, cols) ==
    [y \in 1..Len(c) |->
        IF y - 1 < top \/ y - 1 > bot THEN c[y]
        ELSE IF y - 1 - n >= top THEN c[y - n] ELSE BlankRow(cols)]

\* C25: in every reachable state with a scroll region that is within the grid,
\* a line feed with the cursor at scroll_bot scrolls the region up by one row
\* and leaves cursor_y; with the cursor on any other row, above or below
\* scroll_bot, it increments cursor_y and scrolls no row.
C25_Newline ==
    (~grid.panicked /\ ValidRegion(grid)) =>
        \A byte \in {LF, VT, FF} :
            LET r == execute(grid, byte)
            IN IF grid.cursor_y = grid.scroll_bot
               THEN /\ r.cursor_y = grid.cursor_y
                    /\ r.cells = RegionUp(grid.cells, grid.scroll_top,
                                          grid.scroll_bot, 1, grid.cols)
               ELSE /\ r.cursor_y = grid.cursor_y + 1
                    /\ r.cells = grid.cells
                    /\ r.scrollback = grid.scrollback

\* C26: in every reachable state with a scroll region that is within the grid,
\* ESC M with the cursor at scroll_top scrolls the region down by one row and
\* leaves the cursor; on every other row, the rows above scroll_top included,
\* it moves the cursor up one row (as far as row 0) and scrolls nothing; every
\* other ESC final byte changes nothing.
C26_ReverseIndex ==
    (~grid.panicked /\ ValidRegion(grid)) =>
        \A byte \in EscFinals :
            LET r == esc_grid(grid, byte)
            IN IF byte # "M" THEN r = grid
               ELSE IF grid.cursor_y = grid.scroll_top
               THEN /\ r.cursor_y = grid.cursor_y
                    /\ r.cells = RegionDown(grid.cells, grid.scroll_top,
                                            grid.scroll_bot, 1, grid.cols)
               ELSE /\ r.cursor_y = SatSub(grid.cursor_y, 1)
                    /\ r.cells = grid.cells

\* The callback result r has the cursor, the region, the geometry and the pen
\* of the current state.
SameFrame(r) ==
    /\ r.grid.cursor_x = grid.cursor_x /\ r.grid.cursor_y = grid.cursor_y
    /\ r.grid.scroll_top = grid.scroll_top /\ r.grid.scroll_bot = grid.scroll_bot
    /\ r.grid.rows = grid.rows /\ r.grid.cols = grid.cols
    /\ r.fg = current_fg /\ r.bg = current_bg /\ r.attrs = current_attrs

\* C27: in every reachable state with a scroll region that is within the grid,
\* CSI S and L (scroll_up(n)) and CSI T and M (scroll_down(n)) leave the rows
\* outside the region, the cursor, the region and the pen as they are, shift
\* the rows of the region up resp. down by n with blank rows in the places
\* left, and scroll_down leaves the scrollback as it is.
C27_ScrollFrame ==
    (~grid.panicked /\ ValidRegion(grid)) =>
        \A ps \in ParamLists1 :
            LET n == IF ps = <<>> THEN 1 ELSE Max(ps[1], 1)
            IN /\ \A f \in {"S", "L"} :
                     LET r == PerfCsi(PerformerOf(Term), ps, f)
                     IN /\ r.grid.cells = RegionUp(grid.cells, grid.scroll_top,
                                                   grid.scroll_bot, n, grid.cols)
                        /\ SameFrame(r)
               /\ \A f \in {"T", "M"} :
                     LET r == PerfCsi(PerformerOf(Term), ps, f)
                     IN /\ r.grid.cells = RegionDown(grid.cells, grid.scroll_top,
                                                     grid.scroll_bot, n, grid.cols)
                        /\ r.grid.scrollback = grid.scrollback
                        /\ SameFrame(r)

\* C27 witness: ESC [ 1 T has scrolled the region [0, 1] of a grid of three
\* rows: its first row is blank, its second row holds what was printed, and
\* the row below the region and the scrollback still hold theirs.
C27_Witness ==
    /\ last.op = "csi" /\ last.final = "T"
    /\ grid.rows = TallRows
    /\ grid.scroll_top = 0 /\ grid.scroll_bot = 1
    /\ grid.cells[1] = BlankRow(grid.cols)
    /\ grid.cells[2] # BlankRow(grid.cols)
    /\ grid.cells[3] # BlankRow(grid.cols)
    /\ grid.cells[3] # grid.cells[2]
    /\ grid.scrollback # <<>>

\* C28: in every reachable state CSI K with mode 0, 1 or 2 (erase_line) puts
\* default cells in the columns [cursor_x, cols), [0, cursor_x] resp. [0, cols)
\* of the cursor row and leaves every other cell, the cursor, the region, the
\* scrollback and the pen as they are.
C28_EraseLine ==
    ~grid.panicked =>
        \A ps \in {<<>>, <<0>>, <<1>>, <<2>>} :
            LET mode == IF ps = <<>> THEN 0 ELSE ps[1]
                r    == PerfCsi(PerformerOf(Term), ps, "K")
                erased(x) == CASE mode = 0 -> x >= grid.cursor_x
                               [] mode = 1 -> x <= grid.cursor_x
                               [] OTHER    -> TRUE
            IN /\ SameFrame(r)
               /\ r.grid.scrollback = grid.scrollback
               /\ ~r.grid.panicked
               /\ Len(r.grid.cells) = Len(grid.cells)
               /\ \A y \in 1..Len(grid.cells) :
                     /\ Len(r.grid.cells[y]) = Len(grid.cells[y])
                     /\ \A x \in 1..Len(grid.cells[y]) :
                           r.grid.cells[y][x] =
                               IF y - 1 = grid.cursor_y /\ erased(x - 1)
                               THEN CellDefault ELSE grid.cells[y][x]

\* C28 witness: ESC [ 1 K with the cursor at column 0 of the second row has
\* erased that cell and left the cell next to it and the row above.
C28_Witness ==
    /\ last.op = "csi" /\ last.final = "K" /\ last.ps = <<1>>
    /\ last.x = 0 /\ last.y = 1
    /\ grid.cols = 2
    /\ grid.cells[2][1] = CellDefault
    /\ grid.cells[2][2] # CellDefault
    /\ grid.cells[1] # BlankRow(grid.cols)

\* C29: in every reachable state CSI K with a parameter other than 0, 1, 2 and
\* CSI J with a parameter other than 0, 1, 2, 3, values of 256 and above
\* included, change no cell and no cursor coordinate.
C29_BadEraseMode ==
    ~grid.panicked =>
        \A in \in (EraseParams \X {"J", "K"}) \cup {<<(<<3>>), "K">>} :
            LET r == PerfCsi(PerformerOf(Term), in[1], in[2])
            IN /\ r.grid.cells = grid.cells
               /\ r.grid.cursor_x = grid.cursor_x
               /\ r.grid.cursor_y = grid.cursor_y

\* The callback result r has the cells, the region, the geometry, the
\* scrollback and the pen of the current state.
CursorOnly(r) ==
    /\ r.grid.cells = grid.cells
    /\ r.grid.scrollback = grid.scrollback
    /\ r.grid.scroll_top = grid.scroll_top /\ r.grid.scroll_bot = grid.scroll_bot
    /\ r.grid.rows = grid.rows /\ r.grid.cols = grid.cols
    /\ r.fg = current_fg /\ r.bg = current_bg /\ r.attrs = current_attrs

\* The cursor of r is (x, y).
CursorAt(r, x, y) == r.grid.cursor_x = x /\ r.grid.cursor_y = y

\* C30: in every reachable state CSI A, B, C, D with parameter n (omitted or 0:
\* 1) put the cursor n rows up, n rows down, n columns right, n columns left,
\* clamped to [0, rows - 1] resp. [0, cols - 1]; CSI H and f with (row, col)
\* (omitted or 0: 1) put it at (min(row, rows) - 1, min(col, cols) - 1); none
\* of them changes a cell, the scroll region or the scrollback.
C30_CursorMoves ==
    ~grid.panicked =>
        /\ \A ps \in ParamLists1 :
              LET n == IF ps = <<>> THEN 1 ELSE Max(ps[1], 1)
                  x == grid.cursor_x
                  y == grid.cursor_y
                  R(f) == PerfCsi(PerformerOf(Term), ps, f)
              IN /\ CursorAt(R("A"), x, Clamp(y - n, 0, grid.rows - 1))
                 /\ CursorAt(R("B"), x, Clamp(y + n, 0, grid.rows - 1))
                 /\ CursorAt(R("C"), Clamp(x + n, 0, grid.cols - 1), y)
                 /\ CursorAt(R("D"), Clamp(x - n, 0, grid.cols - 1), y)
                 /\ \A f \in {"A", "B", "C", "D"} : CursorOnly(R(f))
        /\ \A ps \in ParamLists2 : \A f \in {"H", "f"} :
              LET row == IF Len(ps) < 1 THEN 1 ELSE Max(ps[1], 1)
                  col == IF Len(ps) < 2 THEN 1 ELSE Max(ps[2], 1)
                  r   == PerfCsi(PerformerOf(Term), ps, f)
              IN /\ CursorAt(r, Min(col, grid.cols) - 1, Min(row, grid.rows) - 1)
                 /\ CursorOnly(r)

\* C31: in every reachable state CSI n P moves the cells right of the deleted
\* span n columns left and puts default cells in the columns left free at the
\* end of the row; CSI n @ moves the cells from the cursor on n columns right,
\* puts default cells in their place and drops what passes the last column;
\* both leave the columns left of the cursor, every other row, the row's
\* length, the cursor, the region, the scrollback and the pen as they are.
C31_DeleteInsert ==
    ~grid.panicked =>
        \A ps \in ParamLists1 : \A f \in {"P", "@"} :
            LET n   == IF ps = <<>> THEN 1 ELSE Max(ps[1], 1)
                r   == PerfCsi(PerformerOf(Term), ps, f)
                x   == grid.cursor_x
                old == grid.cells[grid.cursor_y + 1]
                new == r.grid.cells[grid.cursor_y + 1]
            IN /\ SameFrame(r)
               /\ r.grid.scrollback = grid.scrollback
               /\ Len(r.grid.cells) = Len(grid.cells)
               /\ \A y \in 1..Len(grid.cells) :
                     y - 1 # grid.cursor_y => r.grid.cells[y] = grid.cells[y]
               /\ Len(new) = grid.cols
               /\ \A c \in 0..(grid.cols - 1) :
                     new[c + 1] =
                        IF c < x THEN old[c + 1]
                        ELSE IF f = "P"
                        THEN IF c + n < grid.cols THEN old[c + n + 1] ELSE CellDefault
                        ELSE IF c - n >= x THEN old[c - n + 1] ELSE CellDefault

\* C31 witness: ESC [ 1 P at column 0 of a row of three columns that held a
\* wide character and a narrow one: the two cells after the deleted one have
\* moved left and the last column is a default cell.
C31_Witness ==
    /\ last.op = "csi" /\ last.final = "P" /\ last.x = 0
    /\ grid.cols = MaxCols + 1
    /\ grid.cells[1][1].width = 0
    /\ grid.cells[1][2].ch = "a"
    /\ grid.cells[1][3] = CellDefault

\* C32: in every state between sequences, a CSI sequence with a final byte
\* the Performer has no arm for, and a DCS string with its hook, put and
\* unhook callbacks, leaves the grid, the cursor, the pen, the title and the
\* parser as they were, and the bytes that follow it are processed as they are
\* without it.
C32_Inert ==
    (parser = ParserNew /\ ~grid.panicked) =>
        \A seq \in InertSeqs :
            /\ process_chunks(Term, <<seq>>, 1) = Term
            /\ \A nxt \in PlainSeqs :
                   process_chunks(Term, <<seq \o nxt>>, 1)
                       = process_chunks(Term, <<nxt>>, 1)

\* A DCS string with parameters and data was fed to a terminal with a printed
\* cell, a bold pen and a set title.
C32_Witness ==
    /\ last.op = "feed"
    /\ last.ps = <<27, 80, 49, 59, 50, 113, 97, 10, 27, 92>>
    /\ parser = ParserNew
    /\ title # TitleDefault
    /\ current_attrs # AttrsDefault
    /\ \E y \in 1..Len(grid.cells) : \E x \in 1..grid.cols :
           grid.cells[y][x] # CellDefault

\* The codes and the parameters of the OSC sequences of C33; "none" is a
\* sequence without a parameter.
OscCodes == {<<>>, <<48>>, <<50>>, <<49>>, <<48, 50>>, <<50, 48>>}
OscTexts == {"none", <<>>, <<97>>, <<98, 97>>, <<255>>, <<97, 255>>}

\* C33: in every state between sequences, ESC ] code ; text BEL sets the
\* title to the text when the code is 0 or 2 and the text is present and is a
\* string (valid UTF-8); every other code, a code 0 or 2 without a parameter
\* and a parameter that is no string leave the title as it was; the grid, the
\* pen and the parser are as before in every case.
C33_OscTitle ==
    (parser = ParserNew /\ ~grid.panicked) =>
        \A code \in OscCodes : \A text \in OscTexts :
            LET seq == <<27, 93>> \o code
                         \o (IF text = "none" THEN <<>> ELSE <<59>> \o text)
                         \o <<7>>
                r == process_chunks(Term, <<seq>>, 1)
                sets == /\ code \in {<<48>>, <<50>>}
                        /\ text # "none"
                        /\ \A i \in 1..Len(text) : text[i] # 255
            IN /\ r.title = IF sets THEN text ELSE title
               /\ [r EXCEPT !.title = title] = Term

\* OSC 0 ; b was fed to a terminal with a printed cell and a bold pen, and
\* the title is b.
C33_Witness ==
    /\ last.op = "feed"
    /\ last.ps = <<27, 93, 48, 59, 98, 7>>
    /\ title = <<98>>
    /\ current_attrs # AttrsDefault
    /\ \E y \in 1..Len(grid.cells) : \E x \in 1..grid.cols :
           grid.cells[y][x] # CellDefault

\* C34: with scroll_offset = k <= L, the length of the scrollback, and
\* 0 <= y < rows, visible_row(y) is row L - k + y of the scrollback followed
\* by the grid; visible_row(y) is nothing when L - k + y is past the last
\* row of the grid.
C34_VisibleRow ==
    ~grid.panicked =>
        LET L == Len(grid.scrollback)
            all == grid.scrollback \o grid.cells
        IN \A k \in 0..L : \A y \in 0..(grid.rows + k) :
              LET v == visible_row([grid EXCEPT !.scroll_offset = k], y)
              IN /\ y < grid.rows => v.some /\ v.val = all[L - k + y + 1]
                 /\ L - k + y >= Len(all) => ~v.some

\* The view was scrolled one row into a scrollback of two rows: its first row
\* is the last row of the scrollback, which differs from the row before it and
\* from the first row of the grid.
C34_Witness ==
    /\ last.op = "scroll"
    /\ grid.scroll_offset = 1
    /\ Len(grid.scrollback) = 2
    /\ grid.rows = 2
    /\ visible_row(grid, 0).val = grid.scrollback[2]
    /\ visible_row(grid, 1).val = grid.cells[1]
    /\ grid.scrollback[2] # grid.scrollback[1]
    /\ grid.scrollback[2] # grid.cells[1]

\* C40: in every state reached by scroll events, prints, line feeds, CSI S
\* and resizes, scroll_offset is at most the length of the scrollback.
C40_OffsetBounded == grid.scroll_offset <= Len(grid.scrollback)

\* A scroll of three lines upwards has left the view at the top of a
\* scrollback of two rows.
C40_Witness ==
    /\ last.op = "scroll"
    /\ last.ps = <<3>>
    /\ Len(grid.scrollback) = 2
    /\ grid.scroll_offset = 2

\* The attribute an SGR code switches on, and the one it switches off.
SgrOn  == [c \in {1, 2, 3, 4, 5, 7, 8, 9} |->
              CASE c = 1 -> "bold" [] c = 2 -> "dim" [] c = 3 -> "italic"
                [] c = 4 -> "underline" [] c = 5 -> "blink"
                [] c = 7 -> "reverse" [] c = 8 -> "invisible"
                [] OTHER -> "strikeout"]
SgrOff == [c \in {23, 24, 25, 27, 28, 29} |->
              CASE c = 23 -> "italic" [] c = 24 -> "underline"
                [] c = 25 -> "blink" [] c = 27 -> "reverse"
                [] c = 28 -> "invisible" [] OTHER -> "strikeout"]

\* The pen the specification gives for one SGR code other than 0, 38 and 48.
SgrExpected(p, c) ==
    IF c \in DOMAIN SgrOn THEN [p EXCEPT !.attrs[SgrOn[c]] = TRUE]
    ELSE IF c = 22 THEN [p EXCEPT !.attrs["bold"] = FALSE, !.attrs["dim"] = FALSE]
    ELSE IF c \in DOMAIN SgrOff THEN [p EXCEPT !.attrs[SgrOff[c]] = FALSE]
    ELSE IF c \in 30..37 THEN [p EXCEPT !.fg = Ansi(c - 30)]
    ELSE IF c \in 90..97 THEN [p EXCEPT !.fg = Ansi(c - 90 + 8)]
    ELSE IF c \in 40..47 THEN [p EXCEPT !.bg = Ansi(c - 40)]
    ELSE IF c \in 100..107 THEN [p EXCEPT !.bg = Ansi(c - 100 + 8)]
    ELSE IF c = 39 THEN [p EXCEPT !.fg = Default]
    ELSE IF c = 49 THEN [p EXCEPT !.bg = Default]
    ELSE p

\* The codes of C35: every code up to 110 but 0, 38 and 48, and the largest
\* parameters of one and two bytes.
SgrPlain == ((1..110) \ {38, 48}) \cup {255, 256, 65535}

\* C35: from every pen, ESC [ c m for a code c other than 0, 38 and 48 gives
\* the pen the code table names: one attribute switched on or off (two for
\* 22), the foreground or the background set to Ansi of the index or to
\* Default, every other field as before, and no change for a code outside the
\* table; two codes in one sequence act one after the other.
C35_SgrCodes ==
    LET p == [fg |-> current_fg, bg |-> current_bg, attrs |-> current_attrs]
    IN /\ \A c \in SgrPlain : handle_sgr(p, <<c>>) = SgrExpected(p, c)
       /\ \A c \in {1, 22, 39, 97, 107, 110} : \A d \in {2, 23, 31, 49, 100} :
              handle_sgr(p, <<c, d>>) = SgrExpected(SgrExpected(p, c), d)

\* ESC [ 41 m was dispatched on a pen with a foreground colour and an
\* attribute set: the background is Ansi(1) and the rest is kept.
C35_Witness ==
    /\ last.op = "csi"
    /\ last.final = "m"
    /\ last.ps = <<41>>
    /\ current_bg = Ansi(1)
    /\ current_fg = Ansi(1)
    /\ current_attrs.bold
    /\ current_attrs.blink

\* The grid of the terminal after the bytes are processed.
GridAfter(bytes) == process_chunks(Term, <<bytes>>, 1).grid

\* C36: in every state between sequences, CSI r takes 1 for each omitted or
\* zero parameter: after ESC [ r, ESC [ 0 r, ESC [ ; r and ESC [ 0 ; 0 r the
\* scroll region is [0, 0], and after ESC [ 2 r and ESC [ 2 ; r scroll_top is
\* 1 and scroll_bot is 0 on a grid of two rows; a bottom that is given is
\* taken (ESC [ 1 ; 2 r); nothing else of the grid changes.
C36_RegionDefaults ==
    (parser = ParserNew /\ ~grid.panicked) =>
        /\ \A bytes \in {<<27, 91, 114>>, <<27, 91, 48, 114>>,
                          <<27, 91, 59, 114>>, <<27, 91, 48, 59, 48, 114>>} :
               GridAfter(bytes) = [grid EXCEPT !.scroll_top = 0, !.scroll_bot = 0]
        /\ \A bytes \in {<<27, 91, 50, 114>>, <<27, 91, 50, 59, 114>>} :
               GridAfter(bytes) = [grid EXCEPT !.scroll_top = 1, !.scroll_bot = 0]
        /\ GridAfter(<<27, 91, 49, 59, 50, 114>>)
               = [grid EXCEPT !.scroll_top = 0,
                              !.scroll_bot = Min(1, grid.rows - 1)]
        /\ csi_grid(grid, <<>>, "r")
               = [grid EXCEPT !.scroll_top = 0, !.scroll_bot = 0]

\* ESC [ r was fed to a terminal of two rows: the scroll region is [0, 0],
\* not the whole grid.
C36_Witness ==
    /\ last.op = "feed"
    /\ last.ps = <<27, 91, 114>>
    /\ grid.rows = 2
    /\ grid.scroll_top = 0
    /\ grid.scroll_bot = 0

\* C37: in every reachable grid, a width-0 cell stands immediately to the
\* right of a width-2 cell of its row, and a width-2 cell that is not in the
\* last column is immediately followed by a width-0 cell.
C37_WidthMarkers ==
    ~grid.panicked =>
        \A y \in 1..Len(grid.cells) :
            LET row == grid.cells[y]
            IN \A x \in 1..Len(row) :
                  /\ row[x].width = 0 => x > 1 /\ row[x - 1].width = 2
                  /\ (row[x].width = 2 /\ x < Len(row)) => row[x + 1].width = 0

\* C39: after every sequence of searches, Next, Prev and closing of the
\* search panel, the current index is a position of the match list whenever
\* the list is not empty, it is 0 after every search, and current_match
\* returns a match exactly when the list is not empty.
C39_IndexValid ==
    ~search.panicked =>
        /\ search.matches # <<>> => search.current_idx < Len(search.matches)
        /\ last.op = "search" => search.current_idx = 0
        /\ current_match(search).some <=> search.matches # <<>>
        /\ current_match(search).some =>
               current_match(search).val = search.matches[search.current_idx + 1]

\* A search that found at least two matches followed the closing of a panel
\* whose current index was not 0.
C39_Witness ==
    /\ last.op = "search"
    /\ last.ch = "close"
    /\ last.k > 0
    /\ Len(search.matches) >= 2
    /\ search.current_idx = 0

\* C38: with a scrollback that is not empty, the cell drawn at viewport row
\* y, column c is highlighted as a match exactly when a match covers column c
\* of the scrollback-then-grid row that visible_row(y) shows, and as the
\* current match exactly when the current match does.
C38_Highlight ==
    (~grid.panicked /\ ~search.panicked /\ grid.scrollback # <<>>) =>
        \A y \in 0..(grid.rows - 1) : \A c \in 0..(grid.cols - 1) :
            LET shown == Len(grid.scrollback) - grid.scroll_offset + y
                r == Rendered(grid, search, y, c)
            IN r.drawn =>
                  /\ r.is_match <=>
                        \E i \in 1..Len(search.matches) :
                            Covers(search.matches[i], shown, c)
                  /\ r.is_current <=>
                        /\ search.matches # <<>>
                        /\ Covers(search.matches[search.current_idx + 1], shown, c)

====
